---------------------------- MODULE Spec2Model ----------------------------
(***************************************************************************)
(* A model of the rustendo NES emulator core: the system bus               *)
(* (src/src/memory.rs) and the 6502 interpreter (src/src/cpu.rs).          *)
(*                                                                         *)
(* Representation.  A byte array (a Rust array or Vec<u8>) is a record     *)
(* [len, data]: len is its length and data maps the indices that hold a    *)
(* non-zero byte to that byte; every other index below len holds 0.        *)
(* Indexing at or beyond len is Rust's index-out-of-bounds panic.          *)
(*                                                                         *)
(* A panic aborts the process (main.rs has no handler), so a state with    *)
(* panic /= NoPanic is terminal.                                           *)
(***************************************************************************)
EXTENDS Integers, Sequences, FiniteSets, TLC

VARIABLES
    cpu,              \* the CPU struct: a, x, y, pc, sp, status
    memory,           \* the Memory struct shared through the RefCell
    cycles,           \* cycles accounted since construction / the last reset
    overflow_checks,  \* build profile: TRUE = debug (arithmetic overflow panics)
    panic,            \* NoPanic, or the panic that aborted the process
    last,             \* the last operation the host performed and its result
    controller,       \* the Controller struct: buttons, strobe, index
    reads,            \* what Controller::read returned since the last strobe
    ppu               \* the PPU struct: cycle, scanline, frame_count

vars == <<cpu, memory, cycles, overflow_checks, panic, last, controller, reads, ppu>>

-----------------------------------------------------------------------------
(* Bounds of the model *)

\* The host stops stepping the CPU once this many cycles have been accounted.
MaxCycles == 8

\* the cycle count up to which a program run alone is followed
MaxRun == 24

\* the value of Controller::index up to which reads are followed
MaxIndex == 9

\* PPU::step is called until frame_count reaches MaxFrames
MaxFrames == 2

-----------------------------------------------------------------------------
(* Integer helpers for u8 / u16 arithmetic *)

RECURSIVE BitAnd(_, _)
BitAnd(p, q) ==
    IF p = 0 \/ q = 0 THEN 0
    ELSE (p % 2) * (q % 2) + 2 * BitAnd(p \div 2, q \div 2)

RECURSIVE BitOr(_, _)
BitOr(p, q) ==
    IF p = 0 THEN q
    ELSE IF q = 0 THEN p
    ELSE (IF p % 2 = 1 \/ q % 2 = 1 THEN 1 ELSE 0) + 2 * BitOr(p \div 2, q \div 2)

RECURSIVE BitXor(_, _)
BitXor(p, q) ==
    IF p = 0 THEN q
    ELSE IF q = 0 THEN p
    ELSE ((p + q) % 2) + 2 * BitXor(p \div 2, q \div 2)

U8(n)  == n % 256
U16(n) == n % 65536

NoPanic == "none"

-----------------------------------------------------------------------------
(* Byte arrays *)

NoData == [i \in {} |-> 0]

ZeroArray(n) == [len |-> n, data |-> NoData]

InBounds(arr, i) == i >= 0 /\ i < arr.len

\* arr[i] for an index that is in bounds
At(arr, i) == IF i \in DOMAIN arr.data THEN arr.data[i] ELSE 0

\* arr[i] = b for an index that is in bounds
Put(arr, i, b) ==
    LET keep == (DOMAIN arr.data) \ {i}
        dom  == IF b = 0 THEN keep ELSE keep \cup {i}
    IN  [arr EXCEPT !.data = [j \in dom |-> IF j = i THEN b ELSE arr.data[j]]]


-----------------------------------------------------------------------------
(* Memory: src/src/memory.rs *)

\* The value a read yields when the indexing panics.
ReadPanic == -1

\* Memory::new
MemoryNew ==
    [ram                  |-> ZeroArray(\h800),
     ppu_registers        |-> ZeroArray(\h08),
     apu_and_io_registers |-> ZeroArray(\h18),
     cartridge_expansion  |-> ZeroArray(\h1F00),
     cartridge_ram        |-> ZeroArray(0),
     cartridge_rom        |-> ZeroArray(0),
     cartridge_chr_rom    |-> ZeroArray(0)]

\* Memory::load_rom
load_rom(mem, rom) ==
    [mem EXCEPT !.cartridge_rom = rom.prg_rom,
                !.cartridge_chr_rom = rom.chr_rom]

\* read_byte, the arm 0x0000..=0x1FFF, with the mirrors left out
read_ram_NoMirror(mem, address) ==
    IF address < \h800 THEN At(mem.ram, address) ELSE 0

\* Memory::read_byte, the arm 0x0000..=0x1FFF
read_ram(mem, address) == At(mem.ram, address % \h800)

\* read_byte, the arm 0x2000..=0x3FFF, decoding only 0x2000..=0x2007 as write_byte does
read_ppu_NoMirror(mem, address) ==
    IF address <= \h2007 THEN At(mem.ppu_registers, address - \h2000) ELSE 0

\* Memory::read_byte, the arm 0x2000..=0x3FFF
read_ppu(mem, address) == At(mem.ppu_registers, (address - \h2000) % 8)

\* Memory::read_byte: the byte read, or ReadPanic
read_byte(mem, address) ==
    CASE address <= \h1FFF -> read_ram(mem, address)
      [] address >= \h2000 /\ address <= \h3FFF -> read_ppu(mem, address)
      [] address >= \h4000 /\ address <= \h4017 ->
            At(mem.apu_and_io_registers, address - \h4000)
      [] address >= \h4018 /\ address <= \h401F -> 0
      [] address >= \h4020 /\ address <= \h5FFF -> 0
      [] address >= \h6000 /\ address <= \h7FFF ->
            IF InBounds(mem.cartridge_ram, address - \h6000)
            THEN At(mem.cartridge_ram, address - \h6000)
            ELSE ReadPanic
      [] address >= \h8000 /\ address <= \hFFFF ->
            IF address - \h8000 < mem.cartridge_rom.len
            THEN At(mem.cartridge_rom, address - \h8000)
            ELSE 0

\* Memory::write_byte: the memory after the write and the panic it raised
write_byte(mem, addr, value) ==
    CASE addr <= \h1FFF ->
            [mem   |-> [mem EXCEPT !.ram = Put(@, BitAnd(addr, \h07FF), value)],
             panic |-> NoPanic]
      [] addr >= \h2000 /\ addr <= \h2007 ->
            [mem   |-> [mem EXCEPT !.ppu_registers = Put(@, BitAnd(addr, \h07), value)],
             panic |-> NoPanic]
      [] addr >= \h4000 /\ addr <= \h4017 ->
            [mem   |-> [mem EXCEPT !.apu_and_io_registers =
                                        Put(@, BitAnd(addr, \h001F), value)],
             panic |-> NoPanic]
      [] addr >= \h4020 /\ addr <= \h5FFF ->
            [mem   |-> [mem EXCEPT !.cartridge_expansion = Put(@, addr - \h4020, value)],
             panic |-> NoPanic]
      [] addr >= \h6000 /\ addr <= \h7FFF ->
            IF InBounds(mem.cartridge_ram, addr - \h6000)
            THEN [mem   |-> [mem EXCEPT !.cartridge_ram = Put(@, addr - \h6000, value)],
                  panic |-> NoPanic]
            ELSE [mem |-> mem, panic |-> "index out of bounds"]
      [] addr >= \h8000 /\ addr <= \hFFFF ->
            [mem |-> mem, panic |-> "write to read-only PRG-ROM"]
      [] OTHER ->
            [mem |-> mem, panic |-> "Invalid address"]

\* read_word with `address + 1` in place of wrapping_add, in a build that checks overflow
read_word_Checked(mem, address) ==
    LET low  == read_byte(mem, address)
        high == IF address + 1 > \hFFFF THEN ReadPanic ELSE read_byte(mem, address + 1)
    IN  IF low = ReadPanic \/ high = ReadPanic THEN ReadPanic
        ELSE BitOr(high * 256, low)

\* Memory::read_word: the word read, or ReadPanic
read_word(mem, address) ==
    LET low  == read_byte(mem, address)
        high == read_byte(mem, U16(address + 1))
    IN  IF low = ReadPanic \/ high = ReadPanic THEN ReadPanic
        ELSE BitOr(high * 256, low)

-----------------------------------------------------------------------------
(* CPU: src/src/cpu.rs *)

CARRY_FLAG == 1

(***************************************************************************)
(* An instruction is a sequence of steps on a context c:                   *)
(*   c.cpu, c.mem  the CPU registers and the memory so far                 *)
(*   c.panic       the panic raised so far (every later step is skipped)   *)
(*   c.v           the value of the last read / address computation        *)
(*   c.ret         the value execute returns                               *)
(***************************************************************************)
Ctx(regs, mem) == [cpu |-> regs, mem |-> mem, panic |-> NoPanic, v |-> 0, ret |-> 0]

Fail(c, msg) == IF c.panic = NoPanic THEN [c EXCEPT !.panic = msg] ELSE c

SetV(c, n) == [c EXCEPT !.v = n]

Ret(c, n) == [c EXCEPT !.ret = n]

\* u8 / u16 `+` : panics on overflow when the build checks it, wraps otherwise
AddU8(c, p, q) ==
    IF p + q > 255 /\ overflow_checks THEN Fail(c, "attempt to add with overflow")
    ELSE SetV(c, U8(p + q))

AddU16(c, p, q) ==
    IF p + q > 65535 /\ overflow_checks THEN Fail(c, "attempt to add with overflow")
    ELSE SetV(c, U16(p + q))

\* u16 `-` : panics on underflow when the build checks it, wraps otherwise
SubU16(c, p, q) ==
    IF p - q < 0 /\ overflow_checks THEN Fail(c, "attempt to subtract with overflow")
    ELSE SetV(c, U16(p - q + 65536))

\* self.pc += n
PcAdd(c, n) ==
    LET c1 == AddU16(c, c.cpu.pc, n)
    IN  IF c1.panic /= NoPanic THEN c1 ELSE [c EXCEPT !.cpu.pc = c1.v]

\* self.memory.borrow().read_byte(addr), the byte left in v
Read(c, addr) ==
    IF c.panic /= NoPanic THEN c
    ELSE LET b == read_byte(c.mem, addr)
         IN  IF b = ReadPanic THEN Fail(c, "index out of bounds") ELSE SetV(c, b)

\* self.memory.borrow().read_word(addr), the word left in v
ReadWord(c, addr) ==
    IF c.panic /= NoPanic THEN c
    ELSE LET w == read_word(c.mem, addr)
         IN  IF w = ReadPanic THEN Fail(c, "index out of bounds") ELSE SetV(c, w)

\* read_word_zero_page with the high byte read from addr + 1, unmasked
read_word_zero_page_NoWrap(c, addr) ==
    LET lo == Read(c, BitAnd(addr, \hFF))
        hi == Read(lo, U16(addr + 1))
        nx == AddU16(hi, addr, 1)
    IN  IF nx.panic /= NoPanic THEN nx ELSE SetV(hi, BitOr(hi.v * 256, lo.v))

\* Memory::read_word_zero_page(addr), the word left in v
read_word_zero_page(c, addr) ==
    LET lo == Read(c, BitAnd(addr, \hFF))
        hi == Read(lo, BitAnd(addr + 1, \hFF))
        nx == AddU16(hi, addr, 1)
    IN  IF nx.panic /= NoPanic THEN nx ELSE SetV(hi, BitOr(hi.v * 256, lo.v))

\* self.memory.borrow_mut().write_byte(addr, value)
Write(c, addr, value) ==
    IF c.panic /= NoPanic THEN c
    ELSE LET w == write_byte(c.mem, addr, value)
         IN  IF w.panic /= NoPanic THEN Fail(c, w.panic) ELSE [c EXCEPT !.mem = w.mem]

SetStatus(c, mask, on) ==
    [c EXCEPT !.cpu.status = IF on THEN BitOr(@, mask) ELSE BitAnd(@, 255 - mask)]

update_carry_flag(c, value) == SetStatus(c, \h01, value)

set_zero_flag(c, value) == SetStatus(c, \h02, value)

set_negative_flag(c, value) == SetStatus(c, \h80, value)

set_carry_flag(c, condition) == SetStatus(c, \h01, condition)

set_overflow_flag(c, value) == SetStatus(c, \h40, value)

update_zero_and_negative_flags(c, value) ==
    set_negative_flag(set_zero_flag(c, value = 0), BitAnd(value, \h80) /= 0)

update_overflow_flag(c, p, q, result) ==
    set_overflow_flag(c, BitAnd(BitAnd(BitXor(p, result), BitXor(q, result)), \h80) /= 0)

branch_ticks(old_pc, new_pc) ==
    IF BitAnd(old_pc, \hFF00) /= BitAnd(new_pc, \hFF00) THEN 2 ELSE 1

\* CPU::adc that leaves the carry flag out of the sum
adc_NoCarryIn(c, value) ==
    LET temp  == c.cpu.a + value
        c1    == update_carry_flag(c, temp > \hFF)
        c2    == update_zero_and_negative_flags(c1, U8(temp))
        c3    == update_overflow_flag(c2, c.cpu.a, value, U8(temp))
    IN  [c3 EXCEPT !.cpu.a = U8(temp)]

adc(c, value) ==
    LET carry == IF BitAnd(c.cpu.status, \h01) = 1 THEN 1 ELSE 0
        temp  == c.cpu.a + value + carry
        c1    == update_carry_flag(c, temp > \hFF)
        c2    == update_zero_and_negative_flags(c1, U8(temp))
        c3    == update_overflow_flag(c2, c.cpu.a, value, U8(temp))
    IN  [c3 EXCEPT !.cpu.a = U8(temp)]

sbc(c, value) ==
    LET carry  == IF BitAnd(c.cpu.status, \h01) = 1 THEN 0 ELSE 1
        result == c.cpu.a + BitAnd(255 - value, \hFF) + carry
        c1     == set_carry_flag(c, result > \hFF)
        c2     == set_overflow_flag(c1,
                      BitAnd(BitAnd(BitXor(c.cpu.a, result), BitXor(value, result)), \h80) /= 0)
        c3     == [c2 EXCEPT !.cpu.a = U8(result)]
    IN  update_zero_and_negative_flags(c3, U8(result))

\* CPU::ror: the result is left in v
ror(c, value) ==
    LET carry  == U8(BitAnd(value, 1) * 128)
        result == BitOr(value \div 2, carry)
    IN  SetV(update_zero_and_negative_flags(c, result), result)

compare(c, register, value) ==
    LET result == U8(register - value + 256)
    IN  update_zero_and_negative_flags(set_carry_flag(c, register >= value), result)

\* CPU::rotate_left: the result is left in v
rotate_left(c, value) ==
    LET carry_bit == IF BitAnd(c.cpu.status, CARRY_FLAG) = CARRY_FLAG THEN 1 ELSE 0
        new_carry == BitAnd(value, \h80) /= 0
        result    == BitOr(U8(value * 2), carry_bit)
        c1        == update_zero_and_negative_flags(c, result)
    IN  SetV(SetStatus(c1, CARRY_FLAG, new_carry), result)

\* CPU::rotate_right: the result is left in v
rotate_right(c, value) ==
    LET carry_bit      == U8(BitAnd(value, 1) * 128)
        new_carry_flag == BitAnd(value, 1) /= 0
        rotated        == BitOr(value \div 2, carry_bit)
        c1             == set_carry_flag(c, new_carry_flag)
        c2             == set_zero_flag(c1, rotated = 0)
    IN  SetV(set_negative_flag(c2, BitAnd(rotated, \h80) /= 0), rotated)

push_byte_to_stack(c, value) ==
    [Write(c, BitOr(\h0100, c.cpu.sp), value) EXCEPT !.cpu.sp = U8(@ + 255)]

\* pop_byte_from_stack with the address 0x0100 + sp + 1 taken before sp wraps
pop_byte_from_stack_NoWrap(c) ==
    Read([c EXCEPT !.cpu.sp = U8(@ + 1)], \h0100 + c.cpu.sp + 1)

\* CPU::pop_byte_from_stack: the byte is left in v
pop_byte_from_stack(c) ==
    Read([c EXCEPT !.cpu.sp = U8(@ + 1)], BitOr(\h0100, U8(c.cpu.sp + 1)))

\* CPU::push_word_to_stack: its two write_byte / wrapping_sub pairs are
\* those of push_byte_to_stack, the high byte first
push_word_to_stack(c, value) ==
    push_byte_to_stack(push_byte_to_stack(c, U8(value \div 256)), U8(value))

\* CPU::pop_word_from_stack: the word is left in v.  RTI and RTS pop the
\* low and the high byte with pop_byte_from_stack, which is the same steps
pop_word_from_stack(c) ==
    LET lo == pop_byte_from_stack(c)
        hi == pop_byte_from_stack(lo)
    IN  SetV(hi, BitOr(hi.v * 256, lo.v))

invalid_opcode(c) == Fail(c, "Invalid opcode")

-----------------------------------------------------------------------------
(* Operand decoding, as the arms of CPU::execute write it.  Each leaves    *)
(* the effective address in v and self.pc behind the operand.  An arm      *)
(* that reads the two operand bytes one at a time (pc += 1 after each)     *)
(* ends in the same state as one that calls read_word and adds 2.          *)

\* the operand byte itself: read_byte(self.pc); self.pc += 1
Imm(c) == PcAdd(SetV(c, c.cpu.pc), 1)

\* read_byte(self.pc), left in v
Fetch(c) == Read(c, c.cpu.pc)

\* .wrapping_add(self.x) / .wrapping_add(self.y) of a u8
WrapX8(c) == SetV(c, U8(c.v + c.cpu.x))

WrapY8(c) == SetV(c, U8(c.v + c.cpu.y))

\* + self.x / + self.y of a u8
AddX8(c) == AddU8(c, c.v, c.cpu.x)

AddY8(c) == AddU8(c, c.v, c.cpu.y)

\* .wrapping_add(self.x as u16) / .wrapping_add(self.y as u16)
WrapX16(c) == SetV(c, U16(c.v + c.cpu.x))

WrapY16(c) == SetV(c, U16(c.v + c.cpu.y))

\* + self.x as u16
AddX16(c) == AddU16(c, c.v, c.cpu.x)

\* % 0xFF
Mod255(c) == SetV(c, c.v % \hFF)

\* read_word_zero_page of the address in v
ZeroPageWord(c) == read_word_zero_page(c, c.v)

\* read_byte(self.pc) as u16
ZP(c) == PcAdd(Fetch(c), 1)

\* read_byte(self.pc).wrapping_add(self.x) as u16
ZPXw(c) == PcAdd(WrapX8(Fetch(c)), 1)

\* read_byte(self.pc).wrapping_add(self.y) as u16
ZPYw(c) == PcAdd(WrapY8(Fetch(c)), 1)

\* (read_byte(self.pc) + self.x) as u16
ZPXc(c) == PcAdd(AddX8(Fetch(c)), 1)

\* (base + self.x) % 0xFF
ZPXm(c) == PcAdd(Mod255(AddX8(Fetch(c))), 1)

\* (base + self.y) % 0xFF
ZPYm(c) == PcAdd(Mod255(AddY8(Fetch(c))), 1)

\* read_word_zero_page(read_byte(self.pc).wrapping_add(self.x) as u16)
IndXw(c) == ZeroPageWord(ZPXw(c))

\* read_word_zero_page(((base + self.x) % 0xFF) as u16)
IndXm(c) == ZeroPageWord(ZPXm(c))

\* read_word_zero_page((base as u16 + self.x as u16) % 0xFF)
IndX77(c) == ZeroPageWord(PcAdd(Mod255(AddX16(Fetch(c))), 1))

\* read_word_zero_page(base as u16).wrapping_add(self.y as u16)
IndY(c) == WrapY16(ZeroPageWord(ZP(c)))

\* read_word(self.pc); self.pc += 2
Abs(c) == PcAdd(ReadWord(c, c.cpu.pc), 2)

\* read_word(self.pc).wrapping_add(self.x as u16); self.pc += 2
AbsXw(c) == PcAdd(WrapX16(ReadWord(c, c.cpu.pc)), 2)

\* read_word(self.pc).wrapping_add(self.y as u16); self.pc += 2
AbsYw(c) == PcAdd(WrapY16(ReadWord(c, c.cpu.pc)), 2)

\* read_word(self.pc) + self.x as u16; self.pc += 2
AbsXc(c) == PcAdd(AddX16(ReadWord(c, c.cpu.pc)), 2)

-----------------------------------------------------------------------------
(* Operations on the operand at the address in v *)

ORA(c) ==
    LET r == Read(c, c.v)
        n == [r EXCEPT !.cpu.a = BitOr(@, r.v)]
    IN  update_zero_and_negative_flags(n, n.cpu.a)

AND(c) ==
    LET r == Read(c, c.v)
        n == [r EXCEPT !.cpu.a = BitAnd(@, r.v)]
    IN  update_zero_and_negative_flags(n, n.cpu.a)

EOR(c) ==
    LET r == Read(c, c.v)
        n == [r EXCEPT !.cpu.a = BitXor(@, r.v)]
    IN  update_zero_and_negative_flags(n, n.cpu.a)

ASL(c) ==
    LET r     == Read(c, c.v)
        c1    == set_carry_flag(r, BitAnd(r.v, \h80) /= 0)
        value == U8(r.v * 2)
    IN  update_zero_and_negative_flags(Write(c1, c.v, value), value)

ASL_A(c) ==
    LET c1 == set_carry_flag(c, BitAnd(c.cpu.a, \h80) /= 0)
        c2 == [c1 EXCEPT !.cpu.a = U8(@ * 2)]
    IN  update_zero_and_negative_flags(c2, c2.cpu.a)

\* ROL as the arms 0x26, 0x2E, 0x36 write it
ROL(c) ==
    LET r     == Read(c, c.v)
        carry == BitAnd(r.v, \h80) /= 0
        value == BitOr(U8(r.v * 2), BitAnd(r.cpu.status, \h01))
        c1    == set_carry_flag(r, carry)
    IN  update_zero_and_negative_flags(Write(c1, c.v, value), value)

\* ROL as the arm 0x3E writes it
ROL_3E(c) ==
    LET r == Read(c, c.v)
        t == rotate_left(r, r.v)
    IN  Write(t, c.v, t.v)

\* ROL A that shifts without taking the carry in
ROL_A_NoCarry(c) ==
    update_zero_and_negative_flags(
        set_carry_flag([c EXCEPT !.cpu.a = U8(@ * 2)], BitAnd(c.cpu.a, \h80) /= 0),
        U8(c.cpu.a * 2))

ROL_A(c) ==
    LET carry == BitAnd(c.cpu.a, \h80) /= 0
        c1    == [c EXCEPT !.cpu.a = BitOr(U8(@ * 2), BitAnd(c.cpu.status, \h01))]
        c2    == set_carry_flag(c1, carry)
    IN  update_zero_and_negative_flags(c2, c2.cpu.a)

LSR(c) ==
    LET r     == Read(c, c.v)
        c1    == set_carry_flag(r, BitAnd(r.v, \h01) /= 0)
        value == r.v \div 2
    IN  update_zero_and_negative_flags(Write(c1, c.v, value), value)

LSR_A(c) ==
    LET c1 == set_carry_flag(c, BitAnd(c.cpu.a, \h01) /= 0)
        c2 == [c1 EXCEPT !.cpu.a = @ \div 2]
    IN  update_zero_and_negative_flags(c2, c2.cpu.a)

\* ROR as the arms 0x66, 0x76 write it
ROR(c) ==
    LET r      == Read(c, c.v)
        carry  == BitAnd(r.v, 1) /= 0
        result == BitOr(r.v \div 2, U8(BitAnd(r.cpu.status, \h01) * 128))
        c1     == Write(r, c.v, result)
    IN  update_zero_and_negative_flags(set_carry_flag(c1, carry), result)

ROR_A(c) ==
    LET carry == BitAnd(c.cpu.a, 1) /= 0
        c1    == [c EXCEPT !.cpu.a = BitOr(@ \div 2, U8(BitAnd(c.cpu.status, \h01) * 128))]
        c2    == set_carry_flag(c1, carry)
    IN  update_zero_and_negative_flags(c2, c2.cpu.a)

\* ROR as the arm 0x6E writes it
ROR_6E(c) ==
    LET r == Read(c, c.v)
        t == ror(r, r.v)
    IN  Write(t, c.v, t.v)

\* RRA as the arm 0x6F writes it
RRA_6F(c) ==
    LET r == Read(c, c.v)
        t == ror(r, r.v)
    IN  adc(Write(t, c.v, t.v), t.v)

\* RRA as the arm 0x77 writes it
RRA_77(c) ==
    LET r == Read(c, c.v)
        t == rotate_right(r, r.v)
    IN  adc(Write(t, c.v, t.v), t.v)

\* ARR: self.a &= value; self.a = self.a.rotate_right(1)
ARR(c) ==
    LET r  == Read(c, c.v)
        m  == BitAnd(r.cpu.a, r.v)
        c1 == [r EXCEPT !.cpu.a = BitOr(m \div 2, U8(BitAnd(m, 1) * 128))]
    IN  update_zero_and_negative_flags(c1, c1.cpu.a)

BIT(c) ==
    LET r  == Read(c, c.v)
        c1 == set_zero_flag(r, BitAnd(r.cpu.a, r.v) = 0)
        c2 == set_overflow_flag(c1, BitAnd(r.v, \h40) /= 0)
    IN  set_negative_flag(c2, BitAnd(r.v, \h80) /= 0)

ADC(c) == LET r == Read(c, c.v) IN adc(r, r.v)

SBC(c) == LET r == Read(c, c.v) IN sbc(r, r.v)

CMP(c) == LET r == Read(c, c.v) IN compare(r, r.cpu.a, r.v)

CPX(c) == LET r == Read(c, c.v) IN compare(r, r.cpu.x, r.v)

CPY(c) == LET r == Read(c, c.v) IN compare(r, r.cpu.y, r.v)

LDA(c) ==
    LET r == Read(c, c.v)
    IN  update_zero_and_negative_flags([r EXCEPT !.cpu.a = r.v], r.v)

LDX(c) ==
    LET r == Read(c, c.v)
    IN  update_zero_and_negative_flags([r EXCEPT !.cpu.x = r.v], r.v)

LDY(c) ==
    LET r == Read(c, c.v)
    IN  update_zero_and_negative_flags([r EXCEPT !.cpu.y = r.v], r.v)

\* STA that also sets N and Z from the accumulator, as a load does
STA_Flags(c) == update_zero_and_negative_flags(Write(c, c.v, c.cpu.a), c.cpu.a)

STA(c) == Write(c, c.v, c.cpu.a)

STX(c) == Write(c, c.v, c.cpu.x)

STY(c) == Write(c, c.v, c.cpu.y)

DEC(c) ==
    LET r     == Read(c, c.v)
        value == U8(r.v + 255)
    IN  update_zero_and_negative_flags(Write(r, c.v, value), value)

INC(c) ==
    LET r     == Read(c, c.v)
        value == U8(r.v + 1)
    IN  update_zero_and_negative_flags(Write(r, c.v, value), value)

\* the offset taken as an unsigned byte
AsI8_Unsigned(b) == b

\* the value of `offset as i8 as i32`
AsI8(b) == IF b >= 128 THEN b - 256 ELSE b

\* self.pc = (self.pc as i32 + offset as i8 as i32) as u16, the offset being in v
Jump(c, taken) ==
    IF taken /\ c.panic = NoPanic
    THEN [c EXCEPT !.cpu.pc = U16(c.cpu.pc + AsI8(c.v) + 65536)]
    ELSE c

\* a conditional branch of the arms 0x30 .. 0xF0: the count returned is always 2
Branch(c, taken) == Jump(PcAdd(Fetch(c), 1), taken)

\* the count BPL returns, c1 being the state before and c2 after the jump
BPL_Ret(c1, c2) ==
    IF BitAnd(c1.cpu.pc, \hFF00) /= BitAnd(c2.cpu.pc, \hFF00) THEN Ret(c2, 3) ELSE c2

BPL_Jump(c1, taken) == BPL_Ret(c1, Jump(c1, taken))

\* BPL, the arm 0x10: returns 3 when the taken branch leaves the page
BPL(c) == BPL_Jump(PcAdd(Fetch(c), 1), BitAnd(c.cpu.status, \h80) = 0)

\* self.pc = the word in v
JumpV(c) == [c EXCEPT !.cpu.pc = c.v]

\* self.push_word_to_stack(self.pc)
PushPc(c) == push_word_to_stack(c, c.cpu.pc)

PHP(c) == push_byte_to_stack(c, BitOr(c.cpu.status, \h10))

\* BRK that pushes the address of its padding byte
BRK_NoPad(c) == JumpV(ReadWord(SetStatus(PHP(PushPc(c)), \h04, TRUE), \hFFFE))

\* BRK: pc += 1; push pc; push status | 0x10; status |= 0x04; pc = read_word(0xFFFE)
BRK(c) == JumpV(ReadWord(SetStatus(PHP(PushPc(PcAdd(c, 1))), \h04, TRUE), \hFFFE))

\* the status loaded from the stack as it is, bit 5 not forced
StatusV_Raw(c) == [c EXCEPT !.cpu.status = c.v]

\* self.status = the byte in v | 0x20
StatusV(c) == [c EXCEPT !.cpu.status = BitOr(c.v, \h20)]

PLP(c) == StatusV(pop_byte_from_stack(c))

\* JSR pushing self.pc instead of self.pc - 1
PcMinus1_None(c) == SetV(c, c.cpu.pc)

\* self.pc - 1, left in v
PcMinus1(c) == SubU16(c, c.cpu.pc, 1)

\* the two push_byte_to_stack of JSR, of the word in v
PushV(c) == push_byte_to_stack(push_byte_to_stack(c, U8(c.v \div 256)), U8(c.v))

\* JSR after `let target_addr = read_word(self.pc)`, which is in t.v
JSR_To(t) == [PushV(PcMinus1(PcAdd(t, 2))) EXCEPT !.cpu.pc = t.v]

JSR(c) == JSR_To(ReadWord(c, c.cpu.pc))

\* RTI that drops the pushed status instead of loading it
RTI_KeepStatus(c) == JumpV(pop_word_from_stack(pop_byte_from_stack(c)))

RTI(c) == JumpV(pop_word_from_stack(PLP(c)))

RTS(c) == PcAdd(JumpV(pop_word_from_stack(c)), 1)

PHA(c) == push_byte_to_stack(c, c.cpu.a)

\* PLA without update_zero_and_negative_flags
PLA_NoFlags(c) == [pop_byte_from_stack(c) EXCEPT !.cpu.a = pop_byte_from_stack(c).v]

PLA(c) ==
    LET p  == pop_byte_from_stack(c)
        c1 == [p EXCEPT !.cpu.a = p.v]
    IN  update_zero_and_negative_flags(c1, c1.cpu.a)

JMP_Abs(c) == JumpV(ReadWord(c, c.cpu.pc))

\* the byte at (ptr & 0xFF00) | ((ptr + 1) & 0xFF), left in v
JMP_Hi(c, ptr) == Read(c, BitOr(BitAnd(ptr, \hFF00), BitAnd(c.v, \hFF)))

\* self.pc = (addr_hi as u16) << 8 | (addr_lo as u16), addr_hi being in v
JMP_To(c, addr_lo) == [c EXCEPT !.cpu.pc = BitOr(c.v * 256, addr_lo)]

\* JMP (indirect) after the pointer is read: al holds addr_lo in v
JMP_Lo(al, ptr) == JMP_To(JMP_Hi(AddU16(al, ptr, 1), ptr), al.v)

\* JMP (indirect) after lo, hi are read and pc is behind them: ptr is in p.v
JMP_Ptr(p) == JMP_Lo(Read(p, p.v), p.v)

JMP_Ind(c) == JMP_Ptr(Abs(c))

\* register transfers and increments: the register is set, then N and Z
SetA(c, n) == update_zero_and_negative_flags([c EXCEPT !.cpu.a = n], n)

SetX(c, n) == update_zero_and_negative_flags([c EXCEPT !.cpu.x = n], n)

SetY(c, n) == update_zero_and_negative_flags([c EXCEPT !.cpu.y = n], n)

-----------------------------------------------------------------------------
(* CPU::execute: `match opcode`, as a table.  The row of an opcode byte    *)
(* names what its arm does:                                                *)
(*   mode    how the arm decodes its operand ("None": it reads none)       *)
(*   op      the operation of the arm on that operand                      *)
(*   skip    the `self.pc += skip` the arm does besides decoding           *)
(*   ret     the value the arm returns (BPL can return 3 instead)          *)
(* "invalid" is an arm that calls invalid_opcode; "unknown" is an opcode   *)
(* byte without an arm, which takes the `_` arm.                           *)

I(op, mode, skip, ret) == [op |-> op, mode |-> mode, skip |-> skip, ret |-> ret]

OpTable ==
    <<
       I("BRK",     "None",   0, 7),  \* 0x00
       I("ORA",     "IndXw",  0, 6),  \* 0x01
       I("NOP",     "None",   0, 2),  \* 0x02
       I("NOP",     "None",   0, 8),  \* 0x03
       I("NOP",     "None",   1, 3),  \* 0x04
       I("ORA",     "ZP",     0, 3),  \* 0x05
       I("ASL",     "ZP",     0, 5),  \* 0x06
       I("NOP",     "None",   0, 5),  \* 0x07
       I("PHP",     "None",   0, 3),  \* 0x08
       I("ORA",     "Imm",    0, 2),  \* 0x09
       I("ASL_A",   "None",   0, 2),  \* 0x0A
       I("NOP",     "None",   0, 2),  \* 0x0B
       I("NOP",     "None",   2, 4),  \* 0x0C
       I("ORA",     "Abs",    0, 4),  \* 0x0D
       I("ASL",     "Abs",    0, 6),  \* 0x0E
       I("NOP",     "None",   0, 6),  \* 0x0F
       I("BPL",     "None",   0, 2),  \* 0x10
       I("ORA",     "IndY",   0, 5),  \* 0x11
       I("NOP",     "None",   0, 2),  \* 0x12
       I("NOP",     "None",   0, 8),  \* 0x13
       I("NOP",     "None",   1, 4),  \* 0x14
       I("ORA",     "ZPXw",   0, 4),  \* 0x15
       I("ASL",     "ZPXw",   0, 6),  \* 0x16
       I("NOP",     "None",   0, 6),  \* 0x17
       I("CLC",     "None",   0, 2),  \* 0x18
       I("ORA",     "AbsYw",  0, 4),  \* 0x19
       I("NOP",     "None",   0, 2),  \* 0x1A
       I("NOP",     "None",   0, 7),  \* 0x1B
       I("NOP",     "None",   2, 4),  \* 0x1C
       I("ORA",     "AbsXw",  0, 4),  \* 0x1D
       I("ASL",     "AbsXw",  0, 7),  \* 0x1E
       I("NOP",     "None",   0, 7),  \* 0x1F
       I("JSR",     "None",   0, 6),  \* 0x20
       I("AND",     "IndXw",  0, 6),  \* 0x21
       I("invalid", "None",   0, 2),  \* 0x22
       I("invalid", "None",   0, 8),  \* 0x23
       I("BIT",     "ZP",     0, 3),  \* 0x24
       I("AND",     "ZP",     0, 3),  \* 0x25
       I("ROL",     "ZP",     0, 5),  \* 0x26
       I("NOP",     "None",   0, 0),  \* 0x27
       I("PLP",     "None",   0, 4),  \* 0x28
       I("AND",     "Imm",    0, 2),  \* 0x29
       I("ROL_A",   "None",   0, 2),  \* 0x2A
       I("invalid", "None",   0, 2),  \* 0x2B
       I("BIT",     "Abs",    0, 4),  \* 0x2C
       I("AND",     "Abs",    0, 4),  \* 0x2D
       I("ROL",     "Abs",    0, 6),  \* 0x2E
       I("invalid", "None",   0, 6),  \* 0x2F
       I("BMI",     "None",   0, 2),  \* 0x30
       I("AND",     "IndY",   0, 5),  \* 0x31
       I("invalid", "None",   0, 2),  \* 0x32
       I("invalid", "None",   0, 8),  \* 0x33
       I("invalid", "None",   0, 4),  \* 0x34
       I("AND",     "ZPXw",   0, 4),  \* 0x35
       I("ROL",     "ZPXw",   0, 6),  \* 0x36
       I("invalid", "None",   0, 6),  \* 0x37
       I("SEC",     "None",   0, 2),  \* 0x38
       I("AND",     "AbsYw",  0, 4),  \* 0x39
       I("invalid", "None",   0, 2),  \* 0x3A
       I("invalid", "None",   0, 7),  \* 0x3B
       I("invalid", "None",   0, 4),  \* 0x3C
       I("AND",     "AbsXw",  0, 4),  \* 0x3D
       I("ROL_3E",  "AbsXw",  0, 7),  \* 0x3E
       I("invalid", "None",   0, 7),  \* 0x3F
       I("RTI",     "None",   0, 6),  \* 0x40
       I("EOR",     "IndXw",  0, 6),  \* 0x41
       I("invalid", "None",   0, 2),  \* 0x42
       I("invalid", "None",   0, 8),  \* 0x43
       I("invalid", "None",   0, 3),  \* 0x44
       I("EOR",     "ZP",     0, 3),  \* 0x45
       I("LSR",     "ZP",     0, 5),  \* 0x46
       I("invalid", "None",   0, 5),  \* 0x47
       I("PHA",     "None",   0, 3),  \* 0x48
       I("EOR",     "Imm",    0, 2),  \* 0x49
       I("LSR_A",   "None",   0, 7),  \* 0x4A
       I("invalid", "None",   0, 2),  \* 0x4B
       I("JMP_Abs", "None",   0, 3),  \* 0x4C
       I("EOR",     "Abs",    0, 4),  \* 0x4D
       I("LSR",     "Abs",    0, 6),  \* 0x4E
       I("invalid", "None",   0, 6),  \* 0x4F
       I("BVC",     "None",   0, 2),  \* 0x50
       I("EOR",     "IndY",   0, 5),  \* 0x51
       I("unknown", "None",   0, 0),  \* 0x52
       I("unknown", "None",   0, 0),  \* 0x53
       I("unknown", "None",   0, 0),  \* 0x54
       I("EOR",     "ZPXc",   0, 4),  \* 0x55
       I("LSR",     "ZPXc",   0, 6),  \* 0x56
       I("unknown", "None",   0, 0),  \* 0x57
       I("CLI",     "None",   1, 2),  \* 0x58
       I("EOR",     "AbsYw",  0, 4),  \* 0x59
       I("unknown", "None",   0, 0),  \* 0x5A
       I("unknown", "None",   0, 0),  \* 0x5B
       I("unknown", "None",   0, 0),  \* 0x5C
       I("EOR",     "AbsXw",  0, 4),  \* 0x5D
       I("unknown", "None",   0, 0),  \* 0x5E
       I("unknown", "None",   0, 0),  \* 0x5F
       I("RTS",     "None",   0, 6),  \* 0x60
       I("ADC",     "IndXw",  0, 6),  \* 0x61
       I("unknown", "None",   0, 0),  \* 0x62
       I("unknown", "None",   0, 0),  \* 0x63
       I("unknown", "None",   0, 0),  \* 0x64
       I("ADC",     "ZP",     0, 3),  \* 0x65
       I("ROR",     "ZP",     0, 5),  \* 0x66
       I("unknown", "None",   0, 0),  \* 0x67
       I("PLA",     "None",   1, 4),  \* 0x68
       I("ADC",     "Imm",    0, 2),  \* 0x69
       I("ROR_A",   "None",   1, 2),  \* 0x6A
       I("ARR",     "Imm",    0, 2),  \* 0x6B
       I("JMP_Ind", "None",   0, 5),  \* 0x6C
       I("ADC",     "Abs",    0, 4),  \* 0x6D
       I("ROR_6E",  "Abs",    0, 6),  \* 0x6E
       I("RRA_6F",  "Abs",    0, 6),  \* 0x6F
       I("BVS",     "None",   0, 2),  \* 0x70
       I("ADC",     "IndY",   0, 5),  \* 0x71
       I("unknown", "None",   0, 0),  \* 0x72
       I("unknown", "None",   0, 0),  \* 0x73
       I("unknown", "None",   0, 0),  \* 0x74
       I("ADC",     "ZPXc",   0, 4),  \* 0x75
       I("ROR",     "ZPXc",   0, 6),  \* 0x76
       I("RRA_77",  "IndX77", 0, 6),  \* 0x77
       I("SEI",     "None",   1, 2),  \* 0x78
       I("ADC",     "AbsYw",  0, 4),  \* 0x79
       I("unknown", "None",   0, 0),  \* 0x7A
       I("unknown", "None",   0, 0),  \* 0x7B
       I("unknown", "None",   0, 0),  \* 0x7C
       I("ADC",     "AbsXw",  0, 4),  \* 0x7D
       I("unknown", "None",   0, 0),  \* 0x7E
       I("unknown", "None",   0, 0),  \* 0x7F
       I("NOP",     "None",   1, 2),  \* 0x80
       I("STA",     "IndXw",  0, 6),  \* 0x81
       I("unknown", "None",   0, 0),  \* 0x82
       I("unknown", "None",   0, 0),  \* 0x83
       I("STY",     "ZP",     0, 3),  \* 0x84
       I("STA",     "ZP",     0, 3),  \* 0x85
       I("STX",     "ZP",     0, 3),  \* 0x86
       I("unknown", "None",   0, 0),  \* 0x87
       I("DEY",     "None",   0, 2),  \* 0x88
       I("unknown", "None",   0, 0),  \* 0x89
       I("TXA",     "None",   1, 2),  \* 0x8A
       I("unknown", "None",   0, 0),  \* 0x8B
       I("STY",     "Abs",    0, 4),  \* 0x8C
       I("STA",     "Abs",    0, 4),  \* 0x8D
       I("STX",     "Abs",    0, 4),  \* 0x8E
       I("unknown", "None",   0, 0),  \* 0x8F
       I("BCC",     "None",   0, 2),  \* 0x90
       I("STA",     "IndY",   0, 6),  \* 0x91
       I("unknown", "None",   0, 0),  \* 0x92
       I("unknown", "None",   0, 0),  \* 0x93
       I("STY",     "ZPXw",   0, 4),  \* 0x94
       I("STA",     "ZPXw",   0, 4),  \* 0x95
       I("STX",     "ZPYw",   0, 4),  \* 0x96
       I("unknown", "None",   0, 0),  \* 0x97
       I("TYA",     "None",   1, 2),  \* 0x98
       I("STA",     "AbsYw",  0, 5),  \* 0x99
       I("TXS",     "None",   1, 2),  \* 0x9A
       I("unknown", "None",   0, 0),  \* 0x9B
       I("unknown", "None",   0, 0),  \* 0x9C
       I("STA",     "AbsXw",  0, 5),  \* 0x9D
       I("invalid", "None",   0, 5),  \* 0x9E
       I("invalid", "None",   0, 5),  \* 0x9F
       I("LDY",     "Imm",    0, 2),  \* 0xA0
       I("LDA",     "IndXm",  0, 6),  \* 0xA1
       I("LDX",     "Imm",    0, 2),  \* 0xA2
       I("invalid", "None",   0, 6),  \* 0xA3
       I("LDY",     "ZP",     0, 3),  \* 0xA4
       I("LDA",     "ZP",     0, 3),  \* 0xA5
       I("LDX",     "ZP",     0, 3),  \* 0xA6
       I("invalid", "None",   0, 3),  \* 0xA7
       I("TAY",     "None",   0, 2),  \* 0xA8
       I("LDA",     "Imm",    0, 2),  \* 0xA9
       I("TAX",     "None",   0, 2),  \* 0xAA
       I("invalid", "None",   0, 2),  \* 0xAB
       I("LDY",     "Abs",    0, 4),  \* 0xAC
       I("LDA",     "Abs",    0, 4),  \* 0xAD
       I("LDX",     "Abs",    0, 4),  \* 0xAE
       I("invalid", "None",   0, 4),  \* 0xAF
       I("BCS",     "None",   0, 2),  \* 0xB0
       I("LDA",     "IndY",   0, 5),  \* 0xB1
       I("invalid", "None",   0, 2),  \* 0xB2
       I("invalid", "None",   0, 5),  \* 0xB3
       I("LDY",     "ZPXm",   0, 4),  \* 0xB4
       I("LDA",     "ZPXm",   0, 4),  \* 0xB5
       I("LDX",     "ZPYm",   0, 4),  \* 0xB6
       I("invalid", "None",   0, 4),  \* 0xB7
       I("CLV",     "None",   0, 2),  \* 0xB8
       I("LDA",     "AbsYw",  0, 4),  \* 0xB9
       I("TSX",     "None",   0, 2),  \* 0xBA
       I("invalid", "None",   0, 4),  \* 0xBB
       I("LDY",     "AbsXw",  0, 4),  \* 0xBC
       I("LDA",     "AbsXw",  0, 4),  \* 0xBD
       I("LDX",     "AbsYw",  0, 4),  \* 0xBE
       I("invalid", "None",   0, 4),  \* 0xBF
       I("CPY",     "Imm",    0, 2),  \* 0xC0
       I("CMP",     "IndXm",  0, 6),  \* 0xC1
       I("invalid", "None",   0, 2),  \* 0xC2
       I("invalid", "None",   0, 8),  \* 0xC3
       I("CPY",     "ZP",     0, 4),  \* 0xC4
       I("CMP",     "ZP",     0, 3),  \* 0xC5
       I("DEC",     "ZP",     0, 5),  \* 0xC6
       I("invalid", "None",   0, 5),  \* 0xC7
       I("INY",     "None",   0, 2),  \* 0xC8
       I("CMP",     "Imm",    0, 2),  \* 0xC9
       I("DEX",     "None",   0, 2),  \* 0xCA
       I("invalid", "None",   0, 2),  \* 0xCB
       I("CPY",     "Abs",    0, 4),  \* 0xCC
       I("CMP",     "Abs",    0, 4),  \* 0xCD
       I("DEC",     "Abs",    0, 6),  \* 0xCE
       I("invalid", "None",   0, 6),  \* 0xCF
       I("BNE",     "None",   0, 2),  \* 0xD0
       I("CMP",     "IndY",   0, 5),  \* 0xD1
       I("invalid", "None",   0, 2),  \* 0xD2
       I("invalid", "None",   0, 8),  \* 0xD3
       I("invalid", "None",   0, 4),  \* 0xD4
       I("CMP",     "ZPXm",   0, 4),  \* 0xD5
       I("DEC",     "ZPXm",   0, 6),  \* 0xD6
       I("invalid", "None",   0, 6),  \* 0xD7
       I("CLD",     "None",   0, 2),  \* 0xD8
       I("CMP",     "AbsYw",  0, 4),  \* 0xD9
       I("invalid", "None",   0, 2),  \* 0xDA
       I("invalid", "None",   0, 7),  \* 0xDB
       I("invalid", "None",   0, 4),  \* 0xDC
       I("unknown", "None",   0, 0),  \* 0xDD
       I("DEC",     "AbsXw",  0, 7),  \* 0xDE
       I("invalid", "None",   0, 7),  \* 0xDF
       I("CPX",     "Imm",    0, 2),  \* 0xE0
       I("SBC",     "IndXm",  0, 6),  \* 0xE1
       I("invalid", "None",   0, 2),  \* 0xE2
       I("invalid", "None",   0, 8),  \* 0xE3
       I("CPX",     "ZP",     0, 3),  \* 0xE4
       I("SBC",     "ZP",     0, 3),  \* 0xE5
       I("INC",     "ZP",     0, 5),  \* 0xE6
       I("invalid", "None",   0, 5),  \* 0xE7
       I("INX",     "None",   0, 2),  \* 0xE8
       I("SBC",     "Imm",    0, 2),  \* 0xE9
       I("NOP",     "None",   0, 2),  \* 0xEA
       I("invalid", "None",   0, 2),  \* 0xEB
       I("CPX",     "Abs",    0, 4),  \* 0xEC
       I("SBC",     "Abs",    0, 4),  \* 0xED
       I("INC",     "Abs",    0, 6),  \* 0xEE
       I("invalid", "None",   0, 6),  \* 0xEF
       I("BEQ",     "None",   0, 2),  \* 0xF0
       I("SBC",     "IndY",   0, 5),  \* 0xF1
       I("invalid", "None",   0, 2),  \* 0xF2
       I("invalid", "None",   0, 8),  \* 0xF3
       I("invalid", "None",   0, 4),  \* 0xF4
       I("SBC",     "ZPXw",   0, 4),  \* 0xF5
       I("INC",     "ZPXw",   0, 6),  \* 0xF6
       I("invalid", "None",   0, 6),  \* 0xF7
       I("SED",     "None",   0, 2),  \* 0xF8
       I("SBC",     "AbsYw",  0, 4),  \* 0xF9
       I("invalid", "None",   0, 2),  \* 0xFA
       I("invalid", "None",   0, 7),  \* 0xFB
       I("invalid", "None",   0, 4),  \* 0xFC
       I("SBC",     "AbsXc",  0, 4),  \* 0xFD
       I("INC",     "AbsXw",  0, 7),  \* 0xFE
       I("invalid", "None",   0, 7)   \* 0xFF
    >>

\* the operand decoding of an arm
Address(mode, c) ==
      CASE mode = "None"    -> c
        [] mode = "IndXw"   -> IndXw(c)
        [] mode = "ZP"      -> ZP(c)
        [] mode = "Imm"     -> Imm(c)
        [] mode = "Abs"     -> Abs(c)
        [] mode = "IndY"    -> IndY(c)
        [] mode = "ZPXw"    -> ZPXw(c)
        [] mode = "AbsYw"   -> AbsYw(c)
        [] mode = "AbsXw"   -> AbsXw(c)
        [] mode = "ZPXc"    -> ZPXc(c)
        [] mode = "IndX77"  -> IndX77(c)
        [] mode = "ZPYw"    -> ZPYw(c)
        [] mode = "IndXm"   -> IndXm(c)
        [] mode = "ZPXm"    -> ZPXm(c)
        [] mode = "ZPYm"    -> ZPYm(c)
        [] mode = "AbsXc"   -> AbsXc(c)

\* the operation of an arm
Operate(op, c) ==
      CASE op = "BRK"      -> BRK(c)
        [] op = "ORA"      -> ORA(c)
        [] op = "NOP"      -> c
        [] op = "ASL"      -> ASL(c)
        [] op = "PHP"      -> PHP(c)
        [] op = "ASL_A"    -> ASL_A(c)
        [] op = "BPL"      -> BPL(c)
        [] op = "CLC"      -> SetStatus(c, \h01, FALSE)
        [] op = "JSR"      -> JSR(c)
        [] op = "AND"      -> AND(c)
        [] op = "invalid"  -> invalid_opcode(c)
        [] op = "BIT"      -> BIT(c)
        [] op = "ROL"      -> ROL(c)
        [] op = "PLP"      -> PLP(c)
        [] op = "ROL_A"    -> ROL_A(c)
        [] op = "BMI"      -> Branch(c, BitAnd(c.cpu.status, \h80) /= 0)
        [] op = "SEC"      -> SetStatus(c, \h01, TRUE)
        [] op = "ROL_3E"   -> ROL_3E(c)
        [] op = "RTI"      -> RTI(c)
        [] op = "EOR"      -> EOR(c)
        [] op = "LSR"      -> LSR(c)
        [] op = "PHA"      -> PHA(c)
        [] op = "LSR_A"    -> LSR_A(c)
        [] op = "JMP_Abs"  -> JMP_Abs(c)
        [] op = "BVC"      -> Branch(c, BitAnd(c.cpu.status, \h40) = 0)
        [] op = "unknown"  -> Fail(c, "Unknown opcode")
        [] op = "CLI"      -> SetStatus(c, \h04, FALSE)
        [] op = "RTS"      -> RTS(c)
        [] op = "ADC"      -> ADC(c)
        [] op = "ROR"      -> ROR(c)
        [] op = "PLA"      -> PLA(c)
        [] op = "ROR_A"    -> ROR_A(c)
        [] op = "ARR"      -> ARR(c)
        [] op = "JMP_Ind"  -> JMP_Ind(c)
        [] op = "ROR_6E"   -> ROR_6E(c)
        [] op = "RRA_6F"   -> RRA_6F(c)
        [] op = "BVS"      -> Branch(c, BitAnd(c.cpu.status, \h40) /= 0)
        [] op = "RRA_77"   -> RRA_77(c)
        [] op = "SEI"      -> SetStatus(c, \h04, TRUE)
        [] op = "STA"      -> STA(c)
        [] op = "STY"      -> STY(c)
        [] op = "STX"      -> STX(c)
        [] op = "DEY"      -> SetY(c, U8(c.cpu.y + 255))
        [] op = "TXA"      -> SetA(c, c.cpu.x)
        [] op = "BCC"      -> Branch(c, BitAnd(c.cpu.status, \h01) = 0)
        [] op = "TYA"      -> SetA(c, c.cpu.y)
        [] op = "TXS"      -> [c EXCEPT !.cpu.sp = c.cpu.x]
        [] op = "LDY"      -> LDY(c)
        [] op = "LDA"      -> LDA(c)
        [] op = "LDX"      -> LDX(c)
        [] op = "TAY"      -> SetY(c, c.cpu.a)
        [] op = "TAX"      -> SetX(c, c.cpu.a)
        [] op = "BCS"      -> Branch(c, BitAnd(c.cpu.status, \h01) /= 0)
        [] op = "CLV"      -> SetStatus(c, \h40, FALSE)
        [] op = "TSX"      -> SetX(c, c.cpu.sp)
        [] op = "CPY"      -> CPY(c)
        [] op = "CMP"      -> CMP(c)
        [] op = "DEC"      -> DEC(c)
        [] op = "INY"      -> SetY(c, U8(c.cpu.y + 1))
        [] op = "DEX"      -> SetX(c, U8(c.cpu.x + 255))
        [] op = "BNE"      -> Branch(c, BitAnd(c.cpu.status, \h02) = 0)
        [] op = "CLD"      -> SetStatus(c, \h08, FALSE)
        [] op = "CPX"      -> CPX(c)
        [] op = "SBC"      -> SBC(c)
        [] op = "INC"      -> INC(c)
        [] op = "INX"      -> SetX(c, U8(c.cpu.x + 1))
        [] op = "BEQ"      -> Branch(c, BitAnd(c.cpu.status, \h02) /= 0)
        [] op = "SED"      -> SetStatus(c, \h08, TRUE)

\* the arm of an opcode, on the context after the fetch and self.pc += 1
Row(row, c) ==
    IF c.panic /= NoPanic THEN c
    ELSE PcAdd(Operate(row.op, Address(row.mode, Ret(c, row.ret))), row.skip)

Arm(opcode, c) == Row(OpTable[opcode + 1], c)

\* CPU::execute on the registers and memory in context c0
\* CPU::execute after `let opcode = read_byte(self.pc)`, which is in v
Decode(c) == Arm(c.v, PcAdd(c, 1))

execute(c0) == Decode(Fetch(c0))

\* CPU::new / CPU::reset: the registers (a read of 0xFFFC / 0xFFFD cannot panic)
ResetRegs(mem) ==
    [a |-> 0, x |-> 0, y |-> 0, pc |-> read_word(mem, \hFFFC), sp |-> \hFD, status |-> \h24]

-----------------------------------------------------------------------------
(* Cartridges: the Rom values main.rs hands to Memory::load_rom.           *)
(* Rom::load_from_file makes prg_rom of buffer[4] * 16 KiB bytes.          *)

RECURSIVE PutSeq(_, _, _)
PutSeq(arr, off, bytes) ==
    IF bytes = <<>> THEN arr
    ELSE PutSeq(Put(arr, off, Head(bytes)), off + 1, Tail(bytes))

PrgBank == 16 * 1024

\* a PRG image of `banks` banks: `code` at offset 0, `tail` in its last 6 bytes
Prg(banks, code, tail) ==
    PutSeq(PutSeq(ZeroArray(banks * PrgBank), 0, code), banks * PrgBank - 6, tail)

Rom(prg) == [prg_rom |-> prg, chr_rom |-> ZeroArray(0), mapper |-> 0, mirroring |-> 0]

\* NMI -> 0x8000, RESET -> 0x8000, IRQ/BRK -> 0x8000
Vectors == <<\h00, \h80, \h00, \h80, \h00, \h80>>

Programs ==
    { <<\hA9, \h42, \hAA, \h00>>,                          \* LDA #$42; TAX; BRK
      <<\hA9, \h5A, \h8D, \h02, \h08, \h8D, \h0A, \h20>>,  \* LDA; STA $0802; STA $200A
      <<\hA9, \h01, \h8D, \h00, \h80>>,                    \* LDA #$01; STA $8000
      <<\hAD, \h00, \h60>>,                                \* LDA $6000
      <<\hA9, \h80, \h48, \h22>> }                         \* LDA #$80; PHA; (0x22)

Cartridges ==
    { Rom(Prg(2, code, Vectors)) : code \in Programs }
        \cup { Rom(Prg(1, <<\hA9, \h42, \hAA, \h00>>, Vectors)),
               Rom(ZeroArray(0)) }

-----------------------------------------------------------------------------
(* Controller: src/src/controller.rs.  buttons[i] of the source is        *)
(* buttons[i + 1] here: A, B, Select, Start, Up, Down, Left, Right.        *)

Controller_new ==
    [buttons |-> [i \in 1 .. 8 |-> FALSE], strobe |-> FALSE, index |-> 0]

Controller_press_button(ctl, button) == [ctl EXCEPT !.buttons[button + 1] = TRUE]

Controller_release_button(ctl, button) == [ctl EXCEPT !.buttons[button + 1] = FALSE]

\* Controller::write that sets strobe and leaves index alone
Controller_write_NoReset(ctl, value) ==
    [ctl EXCEPT !.strobe = BitAnd(value, \h01) /= 0]

Controller_write(ctl, value) ==
    [ctl EXCEPT !.strobe = BitAnd(value, \h01) /= 0,
                !.index  = IF BitAnd(value, \h01) /= 0 THEN 0 ELSE @]

\* the byte Controller::read returns
Controller_read_value(ctl) ==
    IF ctl.index < 8 THEN (IF ctl.buttons[ctl.index + 1] THEN 1 ELSE 0) ELSE 0

\* Controller::read that advances the index also while the strobe is high
Controller_read_state_Advance(ctl) == [ctl EXCEPT !.index = @ + 1]

\* the Controller after Controller::read
Controller_read_state(ctl) ==
    [ctl EXCEPT !.index = IF ctl.strobe THEN 0 ELSE @ + 1]

\* PPU::new: the fields PPU::step uses
PPU_new == [cycle |-> 0, scanline |-> -1, frame_count |-> 0]

\* PPU::step that starts the next scanline one cycle early
PPU_step_Early(p) ==
    IF p.cycle + 1 >= 340
    THEN IF p.scanline + 1 > 261
         THEN [cycle |-> 0, scanline |-> 0, frame_count |-> p.frame_count + 1]
         ELSE [p EXCEPT !.cycle = 0, !.scanline = @ + 1]
    ELSE [p EXCEPT !.cycle = @ + 1]

\* PPU::step
PPU_step(p) ==
    IF p.cycle + 1 > 340
    THEN IF p.scanline + 1 > 261
         THEN [cycle |-> 0, scanline |-> 0, frame_count |-> p.frame_count + 1]
         ELSE [p EXCEPT !.cycle = 0, !.scanline = @ + 1]
    ELSE [p EXCEPT !.cycle = @ + 1]

\* no strobe has been seen, nothing read
NoStrobe == [armed |-> FALSE, valid |-> FALSE, log |-> <<>>, strobed |-> FALSE]

-----------------------------------------------------------------------------
(* The host's inputs *)

WriteAddrs ==
    { \h0000, \h0801, \h2001, \h2009, \h4018, \h6000, \h8000 }

WriteValues == { \h5A }

ReadAddrs ==
    { \h1801, \h2009, \h6000, \hFFFF }

ZeroPageAddrs == { \h0000, \h00FF }

-----------------------------------------------------------------------------
(* The state machine *)

Last(op, addr, value, result) ==
    [op |-> op, addr |-> addr, value |-> value, result |-> result]

\* main.rs: Memory::new, load_rom, CPU::new
Init ==
    \E rom \in Cartridges :
        /\ memory = load_rom(MemoryNew, rom)
        /\ cpu = ResetRegs(load_rom(MemoryNew, rom))
        /\ cycles = 0
        /\ overflow_checks \in BOOLEAN
        /\ panic = NoPanic
        /\ last = Last("new", 0, 0, 0)
        /\ controller = Controller_new
        /\ reads = NoStrobe
        /\ ppu = PPU_new

\* CPU::reset
Reset ==
    /\ panic = NoPanic
    /\ cpu' = ResetRegs(memory)
    /\ last' = Last("reset", 0, 0, 0)
    /\ UNCHANGED <<memory, cycles, overflow_checks, panic, controller, reads, ppu>>

\* one call of CPU::execute; the host adds the returned count to cycles
Executed(c) ==
    IF c.panic /= NoPanic
    THEN /\ panic' = c.panic
         /\ last' = Last("execute", cpu.pc, read_byte(memory, cpu.pc), ReadPanic)
         /\ UNCHANGED <<cpu, memory, cycles>>
    ELSE /\ cpu' = c.cpu
         /\ memory' = c.mem
         /\ cycles' = cycles + c.ret
         /\ last' = Last("execute", cpu.pc, read_byte(memory, cpu.pc), c.ret)
         /\ UNCHANGED panic

Execute ==
    /\ panic = NoPanic
    /\ cycles < MaxCycles
    /\ Executed(execute(Ctx(cpu, memory)))
    /\ UNCHANGED <<overflow_checks, controller, reads, ppu>>

\* one call of Memory::write_byte by the host
WriteByte ==
    /\ panic = NoPanic
    /\ \E addr \in WriteAddrs, value \in WriteValues :
          LET w == write_byte(memory, addr, value)
          IN  /\ memory' = w.mem
              /\ panic' = w.panic
              /\ last' = Last("write_byte", addr, value, 0)
    /\ UNCHANGED <<cpu, cycles, overflow_checks, controller, reads, ppu>>

\* one call of Memory::read_byte by the host
ReadByte ==
    /\ panic = NoPanic
    /\ \E addr \in ReadAddrs :
          LET b == read_byte(memory, addr)
          IN  /\ panic' = IF b = ReadPanic THEN "index out of bounds" ELSE NoPanic
              /\ last' = Last("read_byte", addr, 0, b)
    /\ UNCHANGED <<cpu, memory, cycles, overflow_checks, controller, reads, ppu>>

\* one call of Memory::read_word by the host
ReadWordOp ==
    /\ panic = NoPanic
    /\ \E addr \in ReadAddrs :
          LET w == read_word(memory, addr)
          IN  /\ panic' = IF w = ReadPanic THEN "index out of bounds" ELSE NoPanic
              /\ last' = Last("read_word", addr, 0, w)
    /\ UNCHANGED <<cpu, memory, cycles, overflow_checks, controller, reads, ppu>>

\* one call of Memory::read_word_zero_page by the host
ReadWordZeroPageOp ==
    /\ panic = NoPanic
    /\ \E addr \in ZeroPageAddrs :
          LET r == read_word_zero_page(Ctx(cpu, memory), addr)
          IN  /\ panic' = r.panic
              /\ last' = Last("read_word_zero_page", addr, 0, r.v)
    /\ UNCHANGED <<cpu, memory, cycles, overflow_checks, controller, reads, ppu>>

Next == Execute \/ Reset \/ WriteByte \/ ReadByte \/ ReadWordOp \/ ReadWordZeroPageOp

Spec == Init /\ [][Next]_vars

TypeOK ==
    /\ cpu.a \in 0..255 /\ cpu.x \in 0..255 /\ cpu.y \in 0..255
    /\ cpu.sp \in 0..255 /\ cpu.status \in 0..255 /\ cpu.pc \in 0..65535
    /\ cycles \in Nat
    /\ overflow_checks \in BOOLEAN

-----------------------------------------------------------------------------
(* Program runs: main.rs with a cartridge that holds one short program at *)
(* the reset target, the loop calling CPU::execute, and the NMI line.     *)

\* JMP ($02FF) with $0200 = 0x80; JMP ($FFFC); JMP ($FFFF)
JmpPrograms ==
    { <<\hA9, \h80, \h8D, \h00, \h02, \h6C, \hFF, \h02>>,
      <<\h6C, \hFC, \hFF>>,
      <<\h6C, \hFF, \hFF>> }

\* PLP; PHP -- LDA #$CF; PHA; PLP; PHP --
\* JSR $8005; (0x8003:) NOP; PHP; (0x8005:) PHA; RTI, which returns to 0x8002
StatusPrograms ==
    { <<\h28, \h08>>,
      <<\hA9, \hCF, \h48, \h28, \h08>>,
      <<\h20, \h05, \h80, \hEA, \h08, \h48, \h40>> }

\* programs that move SP across 0x00 / 0xFF (the byte after TXS is skipped):
\*   LDX #$00; TXS; LDA #$5A; PHA; PLA     LDX #$00; TXS; PHP; PLP
\*   LDX #$00; TXS; JSR $8008; (0x8008:) RTS
\*   LDX #$01; TXS; BRK                    LDX #$FE; TXS; RTI
StackPrograms ==
    { <<\hA2, \h00, \h9A, \hEA, \hA9, \h5A, \h48, \h68>>,
      <<\hA2, \h00, \h9A, \hEA, \h08, \h28>>,
      <<\hA2, \h00, \h9A, \hEA, \h20, \h08, \h80, \hEA, \h60>>,
      <<\hA2, \h01, \h9A, \hEA, \h00>>,
      <<\hA2, \hFE, \h9A, \hEA, \h40>> }

\* JSR $8004; NOP; (0x8004:) RTS
CallPrograms == { <<\h20, \h04, \h80, \hEA, \h60>> }

\* byte values at the ends and in the middle of the range
SampleBytes == { \h00, \h01, \h7F, \h80, \hFF }

\* LDA #a; SEC; ADC #v; SBC #v
AdcSbcPrograms ==
    { <<\hA9, a, \h38, \h69, v, \hE9, v>> : a \in SampleBytes, v \in SampleBytes }

AllBytes == 0 .. 255

\* LDA #a; PHA; PLA -- LDA #a; PHA; LDA #$00; PLA
PhaPlaPrograms ==
    { <<\hA9, a, \h48, \h68>> : a \in AllBytes }
        \cup { <<\hA9, a, \h48, \hA9, \h00, \h68>> : a \in AllBytes }

\* LDA #b; ROL A (nine times)
RolPrograms ==
    { <<\hA9, b, \h2A, \h2A, \h2A, \h2A, \h2A, \h2A, \h2A, \h2A, \h2A>> : b \in AllBytes }

\* BPL, BMI, BVC, BVS, BCC, BCS, BNE, BEQ
BranchOpcodes == { \h10, \h30, \h50, \h70, \h90, \hB0, \hD0, \hF0 }

BranchOffsets == { \h00, \h05, \h7F, \h80, \hFB }

\* what runs before the branch: nothing (N, V, Z, C clear); LDA #$80 (N);
\* LDA #$00 (Z); SEC (C); LDA #$40, ADC #$40 (V and N)
BranchSetups ==
    { <<>>, <<\hA9, \h80>>, <<\hA9, \h00>>, <<\h38>>, <<\hA9, \h40, \h69, \h40>> }

BranchPrograms ==
    { setup \o <<opcode, offset>> :
        setup \in BranchSetups, opcode \in BranchOpcodes, offset \in BranchOffsets }

\* LDA #$01; STA $4016; LDA $4016 -- LDA #$5A; STA $4017; LDA $4017
PortPrograms ==
    { <<\hA9, \h01, \h8D, \h16, \h40, \hAD, \h16, \h40>>,
      <<\hA9, \h5A, \h8D, \h17, \h40, \hAD, \h17, \h40>> }

\* LDA #$02; STA $0200; STA $4014; NOP
DmaPrograms == { <<\hA9, \h02, \h8D, \h00, \h02, \h8D, \h14, \h40, \hEA>> }

\* operands around the carry and the sign boundaries
ArithBytes ==
    { \h00, \h01, \h02, \h3F, \h40, \h55, \h7F, \h80, \h81, \hAA, \hC0, \hFE, \hFF }

\* LDA #a; CLC or SEC; ADC #v or SBC #v
ArithPrograms ==
    { <<\hA9, a, flag, opcode, v>> :
        a \in ArithBytes, flag \in {\h18, \h38}, opcode \in {\h69, \hE9}, v \in ArithBytes }

RorBytes == { \h00, \h01, \h02, \h80, \hFF }

\* LDA #v, then with C clear or set (CLC or SEC):
\*   ROR A  --  STA $10; ROR $10  --  STA $10; ROR $10,X (X = 0)
\*   STA $11; LDX #$01; ROR $10,X  --  STA $0200; ROR $0200
RorPrograms ==
    UNION { { <<\hA9, v, flag, \h6A>>,
              <<\hA9, v, \h85, \h10, flag, \h66, \h10>>,
              <<\hA9, v, \h85, \h10, flag, \h76, \h10>>,
              <<\hA9, v, \h85, \h11, \hA2, \h01, flag, \h76, \h10>>,
              <<\hA9, v, \h8D, \h00, \h02, flag, \h6E, \h00, \h02>> } :
            v \in RorBytes, flag \in {\h18, \h38} }

\* <<operand byte b, index i>>: no carry, sum 0xFF, and a carry out of 8 bits
IndexPairs == { <<\h10, \h05>>, <<\hFF, \h00>>, <<\hF0, \h0F>>, <<\h80, \h90>> }

\* with t = (b + i) mod 256:
\*   LDA #$5A; STA t; LDX #i; LDA b,X or LDY b,X
\*   LDA #$5A; STA t; LDY #i; LDX b,Y
\*   LDA #$5A; LDX #i; LDY #$5A; STA b,X or STY b,X
\*   LDX #$5A; LDY #i; STX b,Y
\*   LDA #$02; STA t; STA t+1; STA $0202; LDX #i; LDA (b,X)
\*   LDA #$02; STA t; STA t+1; LDX #i; STA (b,X)
ZeroPageIndexPrograms ==
    UNION { { <<\hA9, \h5A, \h85, U8(p[1] + p[2]), \hA2, p[2], \hB5, p[1]>>,
              <<\hA9, \h5A, \h85, U8(p[1] + p[2]), \hA2, p[2], \hB4, p[1]>>,
              <<\hA9, \h5A, \h85, U8(p[1] + p[2]), \hA0, p[2], \hB6, p[1]>>,
              <<\hA9, \h5A, \hA2, p[2], \hA0, \h5A, \h95, p[1]>>,
              <<\hA9, \h5A, \hA2, p[2], \hA0, \h5A, \h94, p[1]>>,
              <<\hA2, \h5A, \hA0, p[2], \h96, p[1]>>,
              <<\hA9, \h02, \h85, U8(p[1] + p[2]), \h85, U8(p[1] + p[2] + 1),
                \h8D, \h02, \h02, \hA2, p[2], \hA1, p[1]>>,
              <<\hA9, \h02, \h85, U8(p[1] + p[2]), \h85, U8(p[1] + p[2] + 1),
                \hA2, p[2], \h81, p[1]>> } :
            p \in IndexPairs }

\* BRK -- LDA #$C0; PHA; PLP; BRK (P = 0xE0) -- LDA #$00; SEC; BRK
\* NOP; CLV; BRK (BRK at 0x8002)
BrkPrograms ==
    { <<\h00>>,
      <<\hA9, \hC0, \h48, \h28, \h00>>,
      <<\hA9, \h00, \h38, \h00>>,
      <<\hEA, \hB8, \h00>> }

\* LDA #s; PHA; PLP
PlpPrograms == { <<\hA9, s, \h48, \h28>> : s \in {\h00, \h10, \h20, \h30, \hEF, \hFF} }

\* read instructions in absolute,X: ORA, AND, EOR, ADC, LDY, LDA, SBC
AbsXReads == { \h1D, \h3D, \h5D, \h7D, \hBC, \hBD, \hFD }

\* in absolute,Y: ORA, AND, EOR, ADC, LDA, LDX, CMP, SBC
AbsYReads == { \h19, \h39, \h59, \h79, \hB9, \hBE, \hD9, \hF9 }

\* in (indirect),Y: ORA, AND, EOR, ADC, LDA, CMP, SBC
IndYReads == { \h11, \h31, \h51, \h71, \hB1, \hD1, \hF1 }

\* index values that keep 0x02F0 + i in page 2 and that leave it
PageIndexes == { \h05, \h0F, \h10, \h20 }

\* LDX #i; op $02F0,X -- LDY #i; op $02F0,Y
\* LDA #$F0; STA $10; LDA #$02; STA $11; LDY #i; op ($10),Y
IndexedReadPrograms ==
    { <<\hA2, i, opcode, \hF0, \h02>> : i \in PageIndexes, opcode \in AbsXReads }
        \cup { <<\hA0, i, opcode, \hF0, \h02>> : i \in PageIndexes, opcode \in AbsYReads }
        \cup { <<\hA9, \hF0, \h85, \h10, \hA9, \h02, \h85, \h11, \hA0, i, opcode, \h10>> :
                   i \in PageIndexes, opcode \in IndYReads }

\* every opcode byte as the first instruction, followed by $10 $02
OpcodePrograms == { <<opcode, \h10, \h02>> : opcode \in AllBytes }

\* STA in its seven modes, STX and STY in their three
StoreOpcodes ==
    { \h81, \h85, \h8D, \h91, \h95, \h99, \h9D, \h86, \h8E, \h96, \h84, \h8C, \h94 }

\* LDA #$80; LDX #$01; LDY #$02; store with operand bytes $10 $02
\* LDA #$00; store (Z set, the registers zero)
StorePrograms ==
    { <<\hA9, \h80, \hA2, \h01, \hA0, \h02, opcode, \h10, \h02>> : opcode \in StoreOpcodes }
        \cup { <<\hA9, \h00, opcode, \h10, \h02>> : opcode \in StoreOpcodes }

RunPrograms ==
    JmpPrograms \cup StatusPrograms \cup StackPrograms \cup CallPrograms
        \cup AdcSbcPrograms \cup PhaPlaPrograms \cup RolPrograms \cup BranchPrograms
        \cup PortPrograms \cup DmaPrograms \cup ArithPrograms \cup RorPrograms
        \cup ZeroPageIndexPrograms \cup BrkPrograms \cup PlpPrograms
        \cup IndexedReadPrograms \cup OpcodePrograms \cup StorePrograms

\* NMI -> 0x8000, RESET -> 0x8000, IRQ/BRK -> 0x8010
HandlerVectors == <<\h00, \h80, \h00, \h80, \h10, \h80>>

\* what runs before the BRK: CLI (the next byte is skipped) -- LDA #$80; SEC
\* LDA #$FF; PHA; PLP -- LDA #$00; PHA; PLP -- SED; CLV
\* LDX #$01; TXS (the next byte is skipped)
BrkSetups ==
    { <<\h58, \hEA>>, <<\hA9, \h80, \h38>>, <<\hA9, \hFF, \h48, \h28>>,
      <<\hA9, \h00, \h48, \h28>>, <<\hF8, \hB8>>, <<\hA2, \h01, \h9A, \hEA>> }

\* the setup, BRK, NOPs up to 0x800F, and RTI at 0x8010
HandlerPrograms ==
    { [i \in 1 .. 17 |-> IF i <= Len(setup) THEN setup[i]
                         ELSE IF i = Len(setup) + 1 THEN \h00
                         ELSE IF i = 17 THEN \h40
                         ELSE \hEA] : setup \in BrkSetups }

\* <<program, vectors>> of the cartridges that are run
RunImages ==
    { <<code, Vectors>> : code \in RunPrograms }
        \cup { <<code, HandlerVectors>> : code \in HandlerPrograms }

RunInit ==
    \E image \in RunImages :
        /\ memory = load_rom(MemoryNew, Rom(Prg(2, image[1], image[2])))
        /\ cpu = ResetRegs(load_rom(MemoryNew, Rom(Prg(2, image[1], image[2]))))
        /\ cycles = 0
        /\ overflow_checks \in BOOLEAN
        /\ panic = NoPanic
        /\ last = Last("new", 0, 0, 0)
        /\ controller = Controller_new
        /\ reads = NoStrobe
        /\ ppu = PPU_new

\* one call of CPU::execute by the loop of main.rs
Step ==
    /\ panic = NoPanic
    /\ cycles < MaxRun
    /\ Executed(execute(Ctx(cpu, memory)))
    /\ UNCHANGED <<overflow_checks, controller, reads, ppu>>

\* the console's NMI line rises between two calls of CPU::execute.  The CPU
\* struct has no field for the line and nothing in main.rs or cpu.rs takes
\* the edge, so no register and no byte changes; `last` records the edge
NmiEdge ==
    /\ panic = NoPanic
    /\ cycles < MaxRun
    /\ last.op /= "nmi"
    /\ last' = Last("nmi", cpu.pc, 0, 0)
    /\ UNCHANGED <<cpu, memory, cycles, overflow_checks, panic, controller, reads, ppu>>

RunNext == Step \/ NmiEdge

RunSpec == RunInit /\ [][RunNext]_vars

\* the step just taken executed the opcode byte `opcode`
Ran(opcode) == last'.op = "execute" /\ last'.value = opcode

-----------------------------------------------------------------------------
(* The Controller alone: the calls a front end makes on the value main.rs *)
(* constructs.  `reads` observes them: armed after a write with bit 0     *)
(* set, valid from the write with bit 0 clear that follows until a button *)
(* changes, and log holding the first eight bytes read since then;        *)
(* strobed once any strobe has been completed.                            *)

Buttons == 0 .. 7

StrobeValues == { \h00, \h01, \h02 }

ControllerInit ==
    /\ memory = load_rom(MemoryNew, Rom(Prg(2, <<\hA9, \h42, \hAA, \h00>>, Vectors)))
    /\ cpu = ResetRegs(load_rom(MemoryNew, Rom(Prg(2, <<\hA9, \h42, \hAA, \h00>>, Vectors))))
    /\ cycles = 0
    /\ overflow_checks \in BOOLEAN
    /\ panic = NoPanic
    /\ last = Last("new", 0, 0, 0)
    /\ controller = Controller_new
    /\ reads = NoStrobe
    /\ ppu = PPU_new

\* Controller::press_button
PressButton ==
    /\ \E button \in Buttons :
          /\ controller' = Controller_press_button(controller, button)
          /\ last' = Last("press_button", button, 0, 0)
    /\ reads' = [reads EXCEPT !.valid = FALSE, !.log = <<>>]
    /\ UNCHANGED <<cpu, memory, cycles, overflow_checks, panic, ppu>>

\* Controller::release_button
ReleaseButton ==
    /\ \E button \in Buttons :
          /\ controller' = Controller_release_button(controller, button)
          /\ last' = Last("release_button", button, 0, 0)
    /\ reads' = [reads EXCEPT !.valid = FALSE, !.log = <<>>]
    /\ UNCHANGED <<cpu, memory, cycles, overflow_checks, panic, ppu>>

\* Controller::write
ControllerWrite ==
    /\ \E value \in StrobeValues :
          /\ controller' = Controller_write(controller, value)
          /\ last' = Last("controller_write", 0, value, 0)
          /\ reads' = IF value % 2 = 1
                      THEN [reads EXCEPT !.armed = TRUE, !.valid = FALSE, !.log = <<>>]
                      ELSE IF reads.armed
                      THEN [armed |-> FALSE, valid |-> TRUE, log |-> <<>>, strobed |-> TRUE]
                      ELSE reads
    /\ UNCHANGED <<cpu, memory, cycles, overflow_checks, panic, ppu>>

\* Controller::read
ControllerRead ==
    /\ controller.index < MaxIndex
    /\ controller' = Controller_read_state(controller)
    /\ last' = Last("controller_read", 0, 0, Controller_read_value(controller))
    /\ reads' = IF reads.valid /\ Len(reads.log) < 8
                THEN [reads EXCEPT !.log = Append(@, Controller_read_value(controller))]
                ELSE reads
    /\ UNCHANGED <<cpu, memory, cycles, overflow_checks, panic, ppu>>

ControllerNext == PressButton \/ ReleaseButton \/ ControllerWrite \/ ControllerRead

ControllerSpec == ControllerInit /\ [][ControllerNext]_vars

-----------------------------------------------------------------------------
(* The PPU alone: the calls of PPU::step a host makes on the value main.rs *)
(* constructs.                                                             *)

PpuInit ==
    /\ memory = load_rom(MemoryNew, Rom(Prg(2, <<\hA9, \h42, \hAA, \h00>>, Vectors)))
    /\ cpu = ResetRegs(load_rom(MemoryNew, Rom(Prg(2, <<\hA9, \h42, \hAA, \h00>>, Vectors))))
    /\ cycles = 0
    /\ overflow_checks \in BOOLEAN
    /\ panic = NoPanic
    /\ last = Last("new", 0, 0, 0)
    /\ controller = Controller_new
    /\ reads = NoStrobe
    /\ ppu = PPU_new

\* PPU::step
PpuStep ==
    /\ ppu.frame_count < MaxFrames
    /\ ppu' = PPU_step(ppu)
    /\ last' = Last("ppu_step", 0, 0, 0)
    /\ UNCHANGED <<cpu, memory, cycles, overflow_checks, panic, controller, reads>>

PpuNext == PpuStep

PpuSpec == PpuInit /\ [][PpuNext]_vars

-----------------------------------------------------------------------------
(* Properties *)

\* The step just taken was a host write_byte to an address in lo..hi
WroteIn(lo, hi) ==
    /\ last'.op = "write_byte"
    /\ last'.addr >= lo /\ last'.addr <= hi

\* C1: every call of CPU::execute completes and returns a cycle count; it
\* never panics, whatever opcode byte is at PC.
C1_ExecuteTotal == ~(last.op = "execute" /\ panic /= NoPanic)

\* C2: a bus write to 0x8000..0xFFFF returns normally and leaves every byte
\* of the address space as it was.
C2_RomWriteIgnored ==
    [][WroteIn(\h8000, \hFFFF) => (panic' = NoPanic /\ memory' = memory)]_vars

\* C3: a bus read returns a byte and does not panic; without cartridge SRAM
\* a read in 0x6000..0x7FFF returns 0.
C3_ReadTotal ==
    last.op = "read_byte" =>
        /\ panic = NoPanic
        /\ last.result \in 0..255
        /\ (last.addr >= \h6000 /\ last.addr <= \h7FFF /\ memory.cartridge_ram.len = 0)
               => last.result = 0

\* C4: with 16 KiB of PRG-ROM, a read of addr in 0xC000..0xFFFF returns what
\* a read of addr - 0x4000 returns, so the vectors come from the end of the bank.
C4_PrgMirror16K ==
    memory.cartridge_rom.len = PrgBank =>
        \A addr \in \hC000..\hFFFF :
            read_byte(memory, addr) = read_byte(memory, addr - \h4000)

\* RAM cells the mirror property is checked for: fixed ones and every cell
\* that holds a non-zero byte
RamCells == {\h000, \h001, \h002, \h0FF, \h100, \h1FD, \h7FF} \cup DOMAIN memory.ram.data

\* C5: in every reachable state, for every addr < 0x2000,
\* read(addr & 0x07FF) = read(addr).
C5_RamMirror ==
    \A cell \in RamCells, k \in 0..3 :
        LET addr == cell + k * \h800
        IN  read_byte(memory, BitAnd(addr, \h07FF)) = read_byte(memory, addr)

\* C5 witness: a host write through the mirror 0x0801 and a CPU store through
\* the mirror 0x0802 are both visible at other mirrors of their cells.
C5_Witness ==
    /\ read_byte(memory, \h0001) = \h5A
    /\ read_byte(memory, \h1802) = \h5A
    /\ last.op = "execute"

\* 8-byte windows of 0x2000..0x3FFF the PPU mirror property is checked for
PpuWindows == {0, 1, 2, 511, 512, 1022, 1023}

\* C6: in every reachable state, for every addr in 0x2000..0x3FFF,
\* read(addr) = read(0x2000 | (addr & 7)).
C6_PpuMirror ==
    \A w \in PpuWindows, r \in 0..7 :
        LET addr == \h2000 + 8 * w + r
        IN  read_byte(memory, addr) = read_byte(memory, BitOr(\h2000, BitAnd(addr, 7)))

\* C6 witness: PPU register 1 holds a written byte and is read through a mirror.
C6_Witness ==
    /\ At(memory.ppu_registers, 1) = \h5A
    /\ last.op = "read_byte" /\ last.addr = \h2009 /\ last.result = \h5A

\* C7: a bus write to a in 0x2000..0x3FFF returns normally and leaves the
\* memory a write to 0x2000 | (a & 7) leaves.
C7_PpuWriteMirrored ==
    [][WroteIn(\h2000, \h3FFF) =>
          /\ panic' = NoPanic
          /\ memory' = write_byte(memory, BitOr(\h2000, BitAnd(last'.addr, 7)),
                                  last'.value).mem]_vars

\* C8: a read of 0x4018..0x401F returns 0, and a write there returns normally
\* and changes nothing.
C8_TestRegisters ==
    /\ [](\A addr \in \h4018..\h401F : read_byte(memory, addr) = 0)
    /\ [][WroteIn(\h4018, \h401F) => (panic' = NoPanic /\ memory' = memory)]_vars

\* C9: after CPU::new and after CPU::reset, A = X = Y = 0, SP = 0xFD,
\* P = 0x24, PC = read_word(0xFFFC), and 7 cycles are accounted.
C9_ResetState ==
    last.op \in {"new", "reset"} =>
        /\ cpu = [a |-> 0, x |-> 0, y |-> 0, sp |-> \hFD, status |-> \h24,
                  pc |-> read_byte(memory, \hFFFC) + 256 * read_byte(memory, \hFFFD)]
        /\ cycles = 7

\* Addresses the word read is checked at
WordAddrs ==
    { \h0000, \h00FF, \h07FF, \h1FFF, \h2007, \h3FFF, \h4017, \h5FFF, \h6000,
      \h7FFF, \h8000, \hBFFF, \hFFFB, \hFFFC, \hFFFE, \hFFFF }

\* C10: read_word(addr) is read(addr) | (read((addr + 1) mod 2^16) << 8); it
\* panics only where one of the two byte reads does, so read_word(0xFFFF)
\* takes its high byte from 0x0000.
C10_ReadWord ==
    \A addr \in WordAddrs :
        LET lo == read_byte(memory, addr)
            hi == read_byte(memory, (addr + 1) % 65536)
        IN  IF lo = ReadPanic \/ hi = ReadPanic
            THEN read_word(memory, addr) = ReadPanic
            ELSE read_word(memory, addr) = lo + 256 * hi

\* C10 witness: read_word(0xFFFF) has returned the last PRG byte as its low
\* byte and the byte the host wrote to 0x0000 as its high byte.
C10_Witness ==
    /\ last.op = "read_word" /\ last.addr = \hFFFF
    /\ last.result = \h5A80


\* C11: read_word_zero_page(addr), for addr in 0x00..0xFF, takes its low byte
\* from addr and its high byte from (addr + 1) & 0xFF: for 0x00FF the high
\* byte is the one at 0x0000, not the one at 0x0100
C11_ZeroPageWrap ==
    (last.op = "read_word_zero_page" /\ last.addr \in 0 .. \hFF) =>
        /\ panic = NoPanic
        /\ last.result = At(memory.ram, last.addr)
                            + 256 * At(memory.ram, (last.addr + 1) % 256)

\* read_word_zero_page(0x00FF) with 0x5A at 0x0000 and 0x00 at 0x0100
C11_Witness ==
    /\ last.op = "read_word_zero_page"
    /\ last.addr = \h00FF
    /\ At(memory.ram, \h0000) = \h5A
    /\ At(memory.ram, \h0100) = 0
    /\ last.result = \h5A00


\* C12: JMP (indirect) through any pointer ptr completes and sets PC to
\* read(ptr) | read((ptr & 0xFF00) | ((ptr + 1) & 0xFF)) << 8, the high byte
\* coming from $xx00 of the pointer's page when its low byte is 0xFF, for
\* every page including 0xFF
C12_JmpIndirect ==
    [][Ran(\h6C) =>
          LET ptr == read_word(memory, U16(cpu.pc + 1))
              hi  == BitAnd(ptr, \hFF00) + ((ptr + 1) % 256)
          IN  /\ panic' = NoPanic
              /\ cpu'.pc = read_byte(memory, ptr) + 256 * read_byte(memory, hi)]_vars


\* C13: whatever byte PLP or RTI loaded into the status register, the byte
\* PHP writes to the stack has bit 5 set
C13_PhpBit5 ==
    [][(Ran(\h08) /\ panic' = NoPanic) =>
          BitAnd(read_byte(memory', \h0100 + cpu.sp), \h20) = \h20]_vars

\* PHP has pushed 0x30: the status loaded from the stack was 0x00
C13_Witness ==
    /\ last.op = "execute" /\ last.value = \h08
    /\ panic = NoPanic
    /\ cpu.status = \h20
    /\ At(memory.ram, \h0100 + U8(cpu.sp + 1)) = \h30


\* the cells of RAM whose byte the step just taken changed
ChangedCells ==
    { i \in DOMAIN memory.ram.data \cup DOMAIN memory'.ram.data :
        At(memory.ram, i) /= At(memory'.ram, i) }

\* the stack slot k places above SP, with SP wrapping in 0 .. 255
Slot(k) == \h0100 + ((cpu.sp + k) % 256)

\* the step just taken pushed the bytes `bytes`, the first at 0x0100 + SP
Pushes(bytes) ==
    /\ [memory' EXCEPT !.ram = memory.ram] = memory
    /\ ChangedCells \subseteq \h0100 .. \h01FF
    /\ \A k \in 1 .. Len(bytes) : At(memory'.ram, Slot(257 - k)) = bytes[k]
    /\ cpu'.sp = (cpu.sp + 256 - Len(bytes)) % 256

\* the step just taken popped n bytes, the first from 0x0100 + SP + 1
Pops(n) == memory' = memory /\ cpu'.sp = (cpu.sp + n) % 256

\* C14: SP is always in 0 .. 255, and every push and pop of PHA, PHP, PLA,
\* PLP, JSR, RTS, BRK and RTI accesses 0x0100 + SP, within 0x0100 .. 0x01FF,
\* also when SP wraps below 0x00 or above 0xFF
C14_StackPage ==
    /\ [](cpu.sp \in 0 .. 255)
    /\ [][(last'.op = "execute" /\ panic' = NoPanic) =>
            /\ Ran(\h48) => Pushes(<<cpu.a>>)
            /\ Ran(\h08) => Pushes(<<BitOr(cpu.status, \h10)>>)
            /\ Ran(\h20) => Pushes(<<(cpu.pc + 2) \div 256, (cpu.pc + 2) % 256>>)
            /\ Ran(\h00) => Pushes(<<(cpu.pc + 2) \div 256, (cpu.pc + 2) % 256,
                                      BitOr(cpu.status, \h10)>>)
            /\ Ran(\h68) => Pops(1) /\ cpu'.a = At(memory.ram, Slot(1))
            /\ Ran(\h28) => Pops(1) /\ cpu'.status = BitOr(At(memory.ram, Slot(1)), \h20)
            /\ Ran(\h60) => Pops(2) /\ cpu'.pc = At(memory.ram, Slot(1))
                                                + 256 * At(memory.ram, Slot(2)) + 1
            /\ Ran(\h40) => Pops(3) /\ cpu'.status = BitOr(At(memory.ram, Slot(1)), \h20)
                                    /\ cpu'.pc = At(memory.ram, Slot(2))
                                                + 256 * At(memory.ram, Slot(3))]_vars

\* PLA with SP = 0xFF has taken the byte PHA with SP = 0x00 left at 0x0100
C14_Witness ==
    /\ last.op = "execute" /\ last.value = \h68
    /\ panic = NoPanic
    /\ cpu.sp = \h00
    /\ cpu.a = \h5A
    /\ At(memory.ram, \h0100) = \h5A


\* the state after the next n calls of CPU::execute
RECURSIVE After(_, _)
After(c, n) == IF n = 0 THEN c ELSE After(execute(c), n - 1)

\* C15: JSR at p followed at once by RTS at its target leaves PC = p + 3
\* and SP as before the JSR; JSR pushes p + 2, the high byte first
C15_JsrRts ==
    (/\ panic = NoPanic
     /\ read_byte(memory, cpu.pc) = \h20
     /\ read_byte(memory, read_word(memory, U16(cpu.pc + 1))) = \h60) =>
        /\ After(Ctx(cpu, memory), 2).panic = NoPanic
        /\ At(After(Ctx(cpu, memory), 1).mem.ram, Slot(0)) = (cpu.pc + 2) \div 256
        /\ At(After(Ctx(cpu, memory), 1).mem.ram, Slot(255)) = (cpu.pc + 2) % 256
        /\ After(Ctx(cpu, memory), 2).cpu.pc = cpu.pc + 3
        /\ After(Ctx(cpu, memory), 2).cpu.sp = cpu.sp

\* JSR at 0x8000 and RTS at 0x8004 have run: PC = 0x8003, SP = 0xFD again
C15_Witness ==
    /\ last.op = "execute" /\ last.value = \h60 /\ last.addr = \h8004
    /\ panic = NoPanic
    /\ cpu.pc = \h8003
    /\ cpu.sp = \hFD
    /\ At(memory.ram, \h01FD) = \h80
    /\ At(memory.ram, \h01FC) = \h02


\* C16: with C = 1, ADC v followed by SBC v leaves A and C as they were
C16_AdcSbc ==
    (/\ panic = NoPanic
     /\ read_byte(memory, cpu.pc) = \h69
     /\ read_byte(memory, U16(cpu.pc + 2)) = \hE9
     /\ read_byte(memory, U16(cpu.pc + 3)) = read_byte(memory, U16(cpu.pc + 1))
     /\ BitAnd(cpu.status, \h01) = 1) =>
        /\ After(Ctx(cpu, memory), 2).panic = NoPanic
        /\ After(Ctx(cpu, memory), 2).cpu.a = cpu.a
        /\ BitAnd(After(Ctx(cpu, memory), 2).cpu.status, \h01) = 1


\* in r, A and SP are those of the current state and N, Z are set from A
Pulled(r) ==
    /\ r.panic = NoPanic
    /\ r.cpu.a = cpu.a
    /\ r.cpu.sp = cpu.sp
    /\ (BitAnd(r.cpu.status, \h02) = \h02) = (cpu.a = 0)
    /\ (BitAnd(r.cpu.status, \h80) = \h80) = (cpu.a >= 128)

\* C17: PHA followed by PLA, at once or after an instruction that leaves the
\* stack alone (LDA #), leaves A as pushed, SP as before and N, Z set from A
C17_PhaPla ==
    (panic = NoPanic /\ read_byte(memory, cpu.pc) = \h48) =>
        /\ read_byte(memory, U16(cpu.pc + 1)) = \h68 => Pulled(After(Ctx(cpu, memory), 2))
        /\ (/\ read_byte(memory, U16(cpu.pc + 1)) = \hA9
            /\ read_byte(memory, U16(cpu.pc + 3)) = \h68) => Pulled(After(Ctx(cpu, memory), 3))

\* LDA #$80; PHA; LDA #$00; PLA has run: A = 0x80 again, N = 1, Z = 0
C17_Witness ==
    /\ last.op = "execute" /\ last.value = \h68 /\ last.addr = \h8005
    /\ panic = NoPanic
    /\ cpu.a = \h80
    /\ cpu.sp = \hFD
    /\ BitAnd(cpu.status, \h82) = \h80
    /\ At(memory.ram, \h01FD) = \h80


\* the next n instructions are ROL A, the carry flag being clear
RolAhead(n) ==
    /\ panic = NoPanic
    /\ BitAnd(cpu.status, \h01) = 0
    /\ \A k \in 0 .. n - 1 : read_byte(memory, U16(cpu.pc + k)) = \h2A

\* in r, A is that of the current state and the carry flag is clear
Rotated(r) ==
    /\ r.panic = NoPanic
    /\ r.cpu.a = cpu.a
    /\ BitAnd(r.cpu.status, \h01) = 0

\* C18: ROL A applied eight times, from A = b and C = 0, ends with A = b and C = 0
C18_Rol8 == RolAhead(8) => Rotated(After(Ctx(cpu, memory), 8))

\* C18, amended: ROL A applied nine times, from A = b and C = 0, ends with
\* A = b and C = 0
C18_Rol9 == RolAhead(9) => Rotated(After(Ctx(cpu, memory), 9))

\* LDA #$81 and nine ROL A have run: A = 0x81 again, C = 0
C18_Witness ==
    /\ last.op = "execute" /\ last.value = \h2A /\ last.addr = \h800A
    /\ panic = NoPanic
    /\ At(memory.cartridge_rom, 1) = \h81
    /\ cpu.a = \h81
    /\ BitAnd(cpu.status, \h01) = 0


\* the condition of the branch `opcode` on the status byte p
BranchCondition(opcode, p) ==
    CASE opcode = \h10 -> BitAnd(p, \h80) = 0
      [] opcode = \h30 -> BitAnd(p, \h80) /= 0
      [] opcode = \h50 -> BitAnd(p, \h40) = 0
      [] opcode = \h70 -> BitAnd(p, \h40) /= 0
      [] opcode = \h90 -> BitAnd(p, \h01) = 0
      [] opcode = \hB0 -> BitAnd(p, \h01) /= 0
      [] opcode = \hD0 -> BitAnd(p, \h02) = 0
      [] opcode = \hF0 -> BitAnd(p, \h02) /= 0

\* p + 2 + o mod 2^16, o being the byte `offset` read as a signed number
BranchTarget(p, offset) ==
    (p + 2 + offset + (IF offset > 127 THEN 65536 - 256 ELSE 0)) % 65536

\* C19: a conditional branch at p with offset byte o sets PC to p + 2 when
\* its condition is false and to (p + 2 + o) mod 2^16, o signed, when it is
\* true: 0x80 reaches p - 126 and 0x7F reaches p + 129
C19_Branch ==
    [][(last'.op = "execute" /\ last'.value \in BranchOpcodes) =>
          /\ panic' = NoPanic
          /\ cpu'.pc = IF BranchCondition(last'.value, cpu.status)
                       THEN BranchTarget(cpu.pc, read_byte(memory, U16(cpu.pc + 1)))
                       ELSE cpu.pc + 2]_vars

\* BNE at 0x8000 with offset 0x80 and Z clear has run: PC = 0x8000 - 126
C19_Witness ==
    /\ last.op = "execute" /\ last.value = \hD0 /\ last.addr = \h8000
    /\ At(memory.cartridge_rom, 1) = \h80
    /\ panic = NoPanic
    /\ cpu.pc = \h7F82


\* C20: after a strobe (a write with bit 0 set, then one with bit 0 clear)
\* and without button changes, the next eight reads return the state bits
\* of A, B, Select, Start, Up, Down, Left, Right, in this order
C20_ReadOrder ==
    reads.valid =>
        \A k \in 1 .. Len(reads.log) :
            reads.log[k] = IF controller.buttons[k] THEN 1 ELSE 0

\* eight reads after a strobe, with A and Right pressed
C20_Witness ==
    /\ reads.valid
    /\ reads.log = <<1, 0, 0, 0, 0, 0, 0, 1>>
    /\ last.op = "controller_read"
    /\ controller.index = 8


\* the Controller after n calls of Controller::read
RECURSIVE ReadAhead(_, _)
ReadAhead(ctl, n) == IF n = 0 THEN ctl ELSE ReadAhead(Controller_read_state(ctl), n - 1)

\* C21: once a strobe has been completed, the ninth read since the last
\* falling write and every read after it return 1, whatever the buttons are
C21_OnesAfterEight ==
    [][(last'.op = "controller_read" /\ reads.strobed
            /\ ~controller.strobe /\ controller.index >= 8) =>
          last'.result = 1]_vars


\* C22: a button pressed or released after the falling write of a strobe,
\* while reads of the eight bits are still to come, changes none of the
\* bits those reads return
C22_Latch ==
    [][(last'.op \in {"press_button", "release_button"} /\ reads.strobed
            /\ ~controller.strobe /\ controller.index < 8) =>
          \A k \in 0 .. 7 - controller.index :
              Controller_read_value(ReadAhead(controller', k))
                  = Controller_read_value(ReadAhead(controller, k))]_vars


\* the two-byte operand of the instruction at PC
Operand16 == read_word(memory, U16(cpu.pc + 1))

\* C23: a store to 0x4016 is the controller's strobe write, and a load from
\* 0x4016 or 0x4017 returns the controller's next serial bit and advances
\* the controller, whatever byte was stored to that address before
C23_Ports ==
    [][/\ (Ran(\h8D) /\ Operand16 = \h4016) =>
              controller' = Controller_write(controller, cpu.a)
       /\ (Ran(\hAD) /\ Operand16 \in {\h4016, \h4017}) =>
              /\ cpu'.a = Controller_read_value(controller)
              /\ controller' = Controller_read_state(controller)]_vars


\* PPU::oam: PPU::new zeroes it and no method of the PPU or of the bus
\* stores to it
PPU_oam == [i \in 0 .. 255 |-> 0]

\* C24: a store of xx to 0x4014 leaves the 256 bytes at xx00 .. xxFF in the
\* PPU's OAM and costs the CPU 513 or 514 cycles: either the step accounts
\* for them or the next step does not advance
C24_OamDma ==
    [][(Ran(\h8D) /\ Operand16 = \h4014) =>
          /\ \A i \in 0 .. 255 : PPU_oam[i] = read_byte(memory', cpu.a * 256 + i)
          /\ \/ last'.result >= 513
             \/ execute(Ctx(cpu', memory')).cpu.pc = cpu'.pc]_vars


\* the interrupt sequence of the NMI from context c: push PC, push P with
\* bit 4 clear and bit 5 set, set I, load PC from 0xFFFA
NmiService(c) ==
    JumpV(ReadWord(SetStatus(push_byte_to_stack(PushPc(c),
              BitOr(BitAnd(c.cpu.status, \hEF), \h20)), \h04, TRUE), \hFFFA))

\* the step just taken left the registers and memory of context c
StepLeft(c) == panic' = NoPanic /\ c.panic = NoPanic /\ cpu' = c.cpu /\ memory' = c.mem

\* C25: the step that follows an NMI edge services it, at once in 7 cycles
\* or after the instruction at PC has completed: PC and P (bit 4 clear,
\* bit 5 set) are pushed, I is set and PC comes from the vector at 0xFFFA
C25_Nmi ==
    [][(last.op = "nmi" /\ last'.op = "execute") =>
          \/ StepLeft(NmiService(Ctx(cpu, memory))) /\ last'.result = 7
          \/ StepLeft(NmiService(execute(Ctx(cpu, memory)))) /\ last'.result >= 7]_vars


\* C26: a conditional branch returns 2 cycles when it is not taken, 3 when
\* it is taken to the page of the next instruction (p + 2) and 4 when it is
\* taken to another page
C26_BranchCycles ==
    [][(last'.op = "execute" /\ last'.value \in BranchOpcodes) =>
          /\ panic' = NoPanic
          /\ last'.result =
                IF ~BranchCondition(last'.value, cpu.status) THEN 2
                ELSE IF BitAnd(U16(cpu.pc + 2), \hFF00) = BitAnd(cpu'.pc, \hFF00) THEN 3
                ELSE 4]_vars


\* the one-byte operand of the instruction at PC
Operand8 == read_byte(memory, U16(cpu.pc + 1))

\* bit `mask` of the status byte p is set
Flag(p, mask) == BitAnd(p, mask) /= 0

\* A and the flags C, Z, V, N of the register record r
Arith(r) == <<r.a, BitAnd(r.status, \hC3)>>

\* C27: ADC #v with accumulator A and carry C computes t = A + v + C and
\* leaves A' = t mod 256, C' = (t > 0xFF), V' = ((A ^ t) & (v ^ t) & 0x80 /= 0)
\* with the A from before the add, Z' = (A' = 0) and N' = bit 7 of A'
C27_Adc ==
    [][Ran(\h69) =>
          LET t == cpu.a + Operand8 + (cpu.status % 2)
          IN  /\ panic' = NoPanic
              /\ cpu'.a = t % 256
              /\ Flag(cpu'.status, \h01) = (t > \hFF)
              /\ Flag(cpu'.status, \h40) =
                     (BitAnd(BitAnd(BitXor(cpu.a, t), BitXor(Operand8, t)), \h80) /= 0)
              /\ Flag(cpu'.status, \h02) = (cpu'.a = 0)
              /\ Flag(cpu'.status, \h80) = (cpu'.a >= \h80)]_vars

\* LDA #$7F; CLC; ADC #$01 has run: A = 0x80 with N and V set, C and Z clear
C27_Witness ==
    /\ last.op = "execute" /\ last.value = \h69 /\ last.addr = \h8003
    /\ At(memory.cartridge_rom, 1) = \h7F
    /\ At(memory.cartridge_rom, 2) = \h18
    /\ At(memory.cartridge_rom, 4) = \h01
    /\ panic = NoPanic
    /\ cpu.a = \h80
    /\ BitAnd(cpu.status, \hC3) = \hC0


\* C28: SBC #v leaves the A, C, V, N and Z that ADC #(v ^ 0xFF) leaves when
\* applied to the same registers
C28_SbcIsAdc ==
    [][Ran(\hE9) =>
          /\ panic' = NoPanic
          /\ Arith(cpu') = Arith(adc(Ctx(cpu, memory), BitXor(Operand8, \hFF)).cpu)]_vars


\* ROR accumulator, zero page, zero page,X and absolute
RorOpcodes == { \h6A, \h66, \h76, \h6E }

\* the address the ROR `opcode` at PC operates on (none for the accumulator)
RorTarget(opcode) ==
    CASE opcode = \h66 -> Operand8
      [] opcode = \h76 -> U8(Operand8 + cpu.x)
      [] opcode = \h6E -> Operand16
      [] OTHER -> 0

\* the byte the ROR `opcode` at PC is to rotate, and the byte in its place
\* after the step
RorBefore(opcode) ==
    IF opcode = \h6A THEN cpu.a ELSE read_byte(memory, RorTarget(opcode))

RorAfter(opcode) ==
    IF opcode = \h6A THEN cpu'.a ELSE read_byte(memory', RorTarget(opcode))

\* C29: ROR in each of its four modes replaces the operand v by
\* v' = (v >> 1) | (C << 7), C being the carry before the instruction, and
\* leaves C' = v & 1, Z' = (v' = 0), N' = bit 7 of v'
C29_Ror ==
    [][(last'.op = "execute" /\ last'.value \in RorOpcodes) =>
          LET v      == RorBefore(last'.value)
              rotated == (v \div 2) + 128 * (cpu.status % 2)
          IN  /\ panic' = NoPanic
              /\ RorAfter(last'.value) = rotated
              /\ Flag(cpu'.status, \h01) = (v % 2 = 1)
              /\ Flag(cpu'.status, \h02) = (rotated = 0)
              /\ Flag(cpu'.status, \h80) = (rotated >= \h80)]_vars


\* the 16-bit word in the zero page at z, its high byte taken from (z + 1) mod 256
ZeroPageWordAt(z) == read_byte(memory, z) + 256 * read_byte(memory, (z + 1) % 256)

\* zero page,X and zero page,Y loads and stores, (indirect,X) load and store
ZeroPageIndexOpcodes == { \hB5, \hB4, \hB6, \h95, \h94, \h96, \hA1, \h81 }

\* the step of `opcode` just taken used the zero-page address z: a load
\* left the byte at z (or at the word z points to) in its register, a store
\* left its register there
UsedZeroPage(opcode, z) ==
    CASE opcode = \hB5 -> cpu'.a = read_byte(memory, z)
      [] opcode = \hB4 -> cpu'.y = read_byte(memory, z)
      [] opcode = \hB6 -> cpu'.x = read_byte(memory, z)
      [] opcode = \h95 -> read_byte(memory', z) = cpu.a
      [] opcode = \h94 -> read_byte(memory', z) = cpu.y
      [] opcode = \h96 -> read_byte(memory', z) = cpu.x
      [] opcode = \hA1 -> cpu'.a = read_byte(memory, ZeroPageWordAt(z))
      [] opcode = \h81 -> read_byte(memory', ZeroPageWordAt(z)) = cpu.a

\* C30: zero page,X, zero page,Y and (indirect,X) instructions with operand
\* byte b and index i complete and use the zero-page address (b + i) mod 256
C30_ZeroPageIndex ==
    [][(last'.op = "execute" /\ last'.value \in ZeroPageIndexOpcodes) =>
          /\ panic' = NoPanic
          /\ UsedZeroPage(last'.value,
                 U8(Operand8 + (IF last'.value \in {\hB6, \h96} THEN cpu.y ELSE cpu.x)))]_vars


\* C31: BRK at p pushes the high byte of p + 2, then its low byte, then
\* P | 0x10 | 0x20; it sets I, loads PC from the vector at 0xFFFE, leaves SP
\* lower by 3 (mod 256) and returns 7
C31_Brk ==
    [][Ran(\h00) =>
          /\ panic' = NoPanic
          /\ read_byte(memory', Slot(0)) = U16(cpu.pc + 2) \div 256
          /\ read_byte(memory', Slot(255)) = U16(cpu.pc + 2) % 256
          /\ read_byte(memory', Slot(254)) = BitOr(cpu.status, \h30)
          /\ cpu'.status = BitOr(cpu.status, \h04)
          /\ cpu'.pc = read_word(memory, \hFFFE)
          /\ cpu'.sp = (cpu.sp + 253) % 256
          /\ last'.result = 7]_vars

\* NOP; CLV; BRK has run: 0x80, 0x04 and 0x34 are on the stack
C31_Witness ==
    /\ last.op = "execute" /\ last.value = \h00 /\ last.addr = \h8002
    /\ panic = NoPanic
    /\ At(memory.ram, \h01FD) = \h80
    /\ At(memory.ram, \h01FC) = \h04
    /\ At(memory.ram, \h01FB) = \h34
    /\ cpu.sp = \hFA
    /\ cpu.pc = \h8000


\* the context of the next step with bit 4 of the byte PLP is about to pull
\* inverted
FlippedB ==
    LET c == Ctx(cpu, memory)
    IN  Write(c, Slot(1), BitXor(read_byte(memory, Slot(1)), \h10))

\* C32: PLP pulling the byte s leaves bit 5 of P set and N, V, D, I, Z, C
\* equal to those of s, and bit 4 of P is the same whether bit 4 of s is
\* set or clear
C32_PlpIgnoresB ==
    [][Ran(\h28) =>
          /\ panic' = NoPanic
          /\ BitAnd(cpu'.status, \h20) = \h20
          /\ BitAnd(cpu'.status, \hCF) = BitAnd(read_byte(memory, Slot(1)), \hCF)
          /\ BitAnd(cpu'.status, \h10) = BitAnd(execute(FlippedB).cpu.status, \h10)]_vars


\* the base address of the indexed read `opcode` at PC and the index added
IndexBase(opcode) ==
    IF opcode \in IndYReads THEN ZeroPageWordAt(Operand8) ELSE Operand16

IndexValue(opcode) == IF opcode \in AbsXReads THEN cpu.x ELSE cpu.y

\* C33: a read instruction in absolute,X, absolute,Y or (indirect),Y
\* returns its base count (4, 4 and 5) plus 1 exactly when base + index is
\* in another page than base
C33_PageCross ==
    [][(last'.op = "execute" /\ last'.value \in AbsXReads \cup AbsYReads \cup IndYReads) =>
          /\ panic' = NoPanic
          /\ last'.result =
                (IF last'.value \in IndYReads THEN 5 ELSE 4)
                + (IF BitAnd(IndexBase(last'.value), \hFF00)
                        /= BitAnd(U16(IndexBase(last'.value) + IndexValue(last'.value)), \hFF00)
                   THEN 1 ELSE 0)]_vars


\* ASL A, LSR A, ROL A, ROR A
AccumulatorShifts == { \h0A, \h4A, \h2A, \h6A }

\* C34: every call of execute that returns, returns a count of at least 2
\* and at most 7, and the shifts of the accumulator return 2
C34_CycleRange ==
    (last.op = "execute" /\ panic = NoPanic) =>
        /\ last.result >= 2
        /\ last.result <= 7
        /\ last.value \in AccumulatorShifts => last.result = 2


\* the opcodes the decoder treats as a no-op, without the official NOP 0xEA
UnofficialNops == { opcode \in AllBytes \ {\hEA} : OpTable[opcode + 1].op = "NOP" }

\* the byte length of the instruction the opcode byte encodes on the 6502:
\* 1 + the operand size of the addressing mode of its column
CanonicalLength(opcode) ==
    LET column == opcode % 32
    IN  CASE column = 0 -> (IF opcode >= \h80 THEN 2 ELSE IF opcode = \h20 THEN 3 ELSE 1)
          [] column \in {2, 18} -> (IF column = 2 /\ opcode >= \h80 THEN 2 ELSE 1)
          [] column \in {8, 10, 24, 26} -> 1
          [] column \in {12, 13, 14, 15, 25, 27, 28, 29, 30, 31} -> 3
          [] OTHER -> 2

\* C35: an unofficial opcode decoded as a no-op at p leaves PC at p plus its
\* canonical byte length: 2 for 0x03, 0x13, 0x07 and 3 for 0x0F, 0x1B
C35_NopLength ==
    [][(last'.op = "execute" /\ last'.value \in UnofficialNops) =>
          /\ panic' = NoPanic
          /\ cpu'.pc = U16(cpu.pc + CanonicalLength(last'.value))]_vars


\* the bytes of the writable arrays that the step just taken changed
WritableArrays ==
    { "ram", "ppu_registers", "apu_and_io_registers", "cartridge_expansion", "cartridge_ram" }

ChangedBytes ==
    UNION { { <<f, i>> : i \in { j \in DOMAIN memory[f].data \cup DOMAIN memory'[f].data :
                                    At(memory[f], j) /= At(memory'[f], j) } } :
            f \in WritableArrays }

\* the register the store `opcode` writes
StoredRegister(opcode) ==
    IF opcode \in {\h86, \h8E, \h96} THEN cpu.x
    ELSE IF opcode \in {\h84, \h8C, \h94} THEN cpu.y
    ELSE cpu.a

\* C36: a store that completes leaves P, A, X, Y and SP as they were and
\* changes at most one byte of memory, which then holds the stored register
C36_StoreFrame ==
    [][(last'.op = "execute" /\ last'.value \in StoreOpcodes /\ panic' = NoPanic) =>
          /\ [cpu' EXCEPT !.pc = cpu.pc] = cpu
          /\ memory'.cartridge_rom = memory.cartridge_rom
          /\ memory'.cartridge_chr_rom = memory.cartridge_chr_rom
          /\ Cardinality(ChangedBytes) <= 1
          /\ \A b \in ChangedBytes :
                 At(memory'[b[1]], b[2]) = StoredRegister(last'.value)]_vars

\* LDA #$80; LDX #$01; LDY #$02; STA $0210 has run: the byte is stored and
\* P still shows the Y just loaded (N and Z clear)
C36_Witness ==
    /\ last.op = "execute" /\ last.value = \h8D /\ last.addr = \h8006
    /\ panic = NoPanic
    /\ At(memory.ram, \h0210) = \h80
    /\ cpu.a = \h80
    /\ cpu.status = \h24


\* the one-byte instructions in implied or accumulator mode: CLC, SEC, CLI,
\* SEI, CLV, CLD, SED, TAX, TAY, TXA, TYA, TSX, TXS, INX, INY, DEX, DEY, PHA,
\* PHP, PLA, PLP, NOP, ASL A, LSR A, ROL A, ROR A
OneByteOpcodes ==
    { \h18, \h38, \h58, \h78, \hB8, \hD8, \hF8, \hAA, \hA8, \h8A, \h98, \hBA, \h9A,
      \hE8, \hC8, \hCA, \h88, \h48, \h08, \h68, \h28, \hEA, \h0A, \h4A, \h2A, \h6A }

\* C37: a one-byte implied or accumulator instruction at p leaves PC = p + 1
C37_OneByte ==
    [][(last'.op = "execute" /\ last'.value \in OneByteOpcodes) =>
          /\ panic' = NoPanic
          /\ cpu'.pc = U16(cpu.pc + 1)]_vars


\* C38: BRK at p whose handler begins with RTI: after the RTI, PC = p + 2,
\* SP is what it was before the BRK, N, V, D, I, Z, C are what they were
\* before the BRK, and bit 5 of P is set
C38_BrkRti ==
    (/\ panic = NoPanic
     /\ read_byte(memory, cpu.pc) = \h00
     /\ read_byte(memory, read_word(memory, \hFFFE)) = \h40) =>
        /\ After(Ctx(cpu, memory), 2).panic = NoPanic
        /\ After(Ctx(cpu, memory), 2).cpu.pc = U16(cpu.pc + 2)
        /\ After(Ctx(cpu, memory), 2).cpu.sp = cpu.sp
        /\ BitAnd(After(Ctx(cpu, memory), 2).cpu.status, \hCF) = BitAnd(cpu.status, \hCF)
        /\ BitAnd(After(Ctx(cpu, memory), 2).cpu.status, \h20) = \h20

\* CLI; BRK at 0x8002; RTI at 0x8010 have run: PC = 0x8004, SP = 0xFD and
\* I is clear again
C38_Witness ==
    /\ last.op = "execute" /\ last.value = \h40 /\ last.addr = \h8010
    /\ At(memory.cartridge_rom, 0) = \h58
    /\ panic = NoPanic
    /\ cpu.pc = \h8004
    /\ cpu.sp = \hFD
    /\ cpu.status = \h30


\* C39: a read made while the strobe is high returns the state of button A
\* and leaves the index at 0; the index grows only in a read made while the
\* strobe is low, and then by 1
C39_StrobeHigh ==
    [][/\ (last'.op = "controller_read" /\ controller.strobe) =>
              /\ last'.result = (IF controller.buttons[1] THEN 1 ELSE 0)
              /\ controller'.index = 0
       /\ (last'.op = "controller_read" /\ ~controller.strobe) =>
              controller'.index = controller.index + 1
       /\ controller'.index > controller.index =>
              (last'.op = "controller_read" /\ ~controller.strobe)]_vars

\* a read while the strobe is high, A pressed and B not: it returned 1 and
\* the index is 0
C39_Witness ==
    /\ last.op = "controller_read" /\ last.result = 1
    /\ controller.strobe
    /\ controller.index = 0
    /\ controller.buttons[1] /\ ~controller.buttons[2]


\* C40: cycle stays in 0 .. 340 and scanline in -1 .. 261; a step changes
\* scanline exactly when cycle goes from 340 to 0, by +1 or from 261 to 0,
\* and adds 1 to frame_count exactly when scanline goes from 261 to 0, so
\* scanline is -1 only before the first frame is complete
C40_PpuCounters ==
    /\ [](ppu.cycle \in 0 .. 340 /\ ppu.scanline \in -1 .. 261)
    /\ [](ppu.scanline = -1 => ppu.frame_count = 0)
    /\ [][last'.op = "ppu_step" =>
            /\ (ppu'.scanline /= ppu.scanline) = (ppu.cycle = 340 /\ ppu'.cycle = 0)
            /\ ppu'.scanline \in {ppu.scanline, ppu.scanline + 1, 0}
            /\ ppu'.scanline = 0 => ppu.scanline \in {-1, 0, 261}
            /\ ppu'.scanline = -1 => ppu.scanline = -1
            /\ ppu'.frame_count =
                  ppu.frame_count + (IF ppu.scanline = 261 /\ ppu'.scanline = 0 THEN 1 ELSE 0)
            /\ ppu.cycle /= 340 => ppu'.cycle = ppu.cycle + 1]_vars

\* the step that ends the first frame: scanline went from 261 to 0
C40_Witness ==
    /\ last.op = "ppu_step"
    /\ ppu = [cycle |-> 0, scanline |-> 0, frame_count |-> 1]

====
